---- MODULE Spec2Model ----
(***************************************************************************)
(* Model of the agent crate of Photon: ManagerAgent::run_task              *)
(* (crates/agent/src/manager.rs) and DebateHost::run_debate                *)
(* (crates/agent/src/host.rs).                                             *)
(*                                                                         *)
(* One behaviour is one run.  Every await on an external collaborator (an  *)
(* LLM backend, a skill, the context store) is one step whose response is  *)
(* chosen with \E; the pipelines of a batch (join_all) interleave at those *)
(* steps.  Each such step is an operator of the response, so that a        *)
(* property can speak about the step taken with a given response.          *)
(***************************************************************************)
EXTENDS Naturals, Integers, Sequences, FiniteSets, TLC

VARIABLES
    mode,                   \* "task" (run_task) or "debate" (run_debate)
    pc,                     \* position of the run
    initial_plan,           \* run_task: make_plan's result, until reviewed
    current_plan_tasks,     \* run_task: Vec<SubTask>
    completed_tasks_ids,    \* run_task: HashSet<String>
    task_results_history,   \* run_task: Vec<(id, summary)>, ids only
    global_replan_count,    \* run_task
    history,                \* AgentContext.history
    artifacts,              \* AgentContext.artifacts
    lock,                   \* Mutex<AgentContext>: 0 free, i held by pipeline i
    pipes,                  \* the futures of the running batch, in batch order
    fold,                   \* process_execution_results: [idx, batch_failed, failure_info]
    round,                  \* run_debate_core: round
    turns,                  \* run_debate_core: Vec<DebateTurn>
    max_turns,              \* DebateHost.max_turns
    speaker,                \* run_debate_core: speaker_name of the turn being taken
    core,                   \* run_debate: result of run_debate_core
    ret,                    \* what the entry point returned to its caller
    saves,                  \* calls of ContextStore::save so far
    calls,                  \* calls of the run-level backends so far
    params,                 \* resolve_params_deep: params
    resolved,               \* resolve_params_deep: the results of successive calls
    input,                  \* clean_json_markdown: input
    cleaned                 \* clean_json_markdown: the result

vars == <<mode, pc, initial_plan, current_plan_tasks, completed_tasks_ids,
          task_results_history, global_replan_count, history, artifacts, lock,
          pipes, fold, round, turns, max_turns, speaker, core, ret, saves, calls,
          params, resolved, input, cleaned>>

taskVars == <<initial_plan, current_plan_tasks, completed_tasks_ids,
              task_results_history, global_replan_count, pipes, fold>>

debateVars == <<round, turns, max_turns, speaker, core>>

fnVars == <<params, resolved, input, cleaned>>

----------------------------------------------------------------------------
(* Bounds of the model *)

\* longest task list a planner or reviewer response carries
MaxPlanLen == 2

\* longest task list a replanner response carries
MaxReplanLen == 1

\* largest max_turns a DebateHost is built with
MaxTurns == 2

(* Program constants *)

MAX_GLOBAL_REPLANS == 3

max_retries == 2

\* number of verification votes of one round
NumVotes == 3

----------------------------------------------------------------------------
(* Values *)

\* skills registered with the agent (self.skills)
Registry == {"add", "sub"}

\* skill names an LLM response may carry
SkillNames == Registry \cup {"ghost"}

\* TaskResult.data of a skill, "none" standing for None: each skill has its own
\* data value, which it returns or not
DataOf(skill) == IF skill = "add" THEN "x" ELSE "y"

SkillResults(skill) == {"none", DataOf(skill), "err"}

Task(i, d, s) == [id |-> i, deps |-> d, skill |-> s]

\* the SubTasks an LLM response is built from: two tasks of the same id, a
\* dependent task, a task of an unregistered skill, a task that depends on itself
TaskPool ==
    { Task("t1", {}, "add"),
      Task("t1", {}, "sub"),
      Task("t2", {"t1"}, "sub"),
      Task("t2", {}, "ghost"),
      Task("t2", {"t2"}, "sub") }

\* the sequences of at most n different elements of S
SeqsUpTo(S, n) ==
    UNION { { s \in [1..k -> S] : \A a, b \in 1..k : a # b => s[a] # s[b] } : k \in 0..n }

\* the task lists of the ExecutionPlan of a planner or reviewer response
Plans == SeqsUpTo(TaskPool, MaxPlanLen)

\* the task lists of the ExecutionPlan of a replanner response
Replans == SeqsUpTo(TaskPool, MaxReplanLen)

Ids(tasks) == { tasks[k].id : k \in DOMAIN tasks }

NoRet == [kind |-> "none", why |-> "none", info |-> <<>>]

RetOk == [kind |-> "ok", why |-> "none", info |-> <<>>]

RetErr(why, info) == [kind |-> "err", why |-> why, info |-> info]

NoOut == [kind |-> "none", success |-> FALSE, data |-> "none", feedback |-> "none"]

\* Ok(TaskResult { success, output_data, verification_feedback })
Outcome(success, data, feedback) ==
    [kind |-> "outcome", success |-> success, data |-> data, feedback |-> feedback]

\* Err(e) returned by a pipeline
OutErr == [kind |-> "error", success |-> FALSE, data |-> "none", feedback |-> "none"]

NoFold == [idx |-> 0, batch_failed |-> FALSE, failure_info |-> <<>>]

NoCalls == [replan |-> 0, synth |-> 0, host |-> 0]

NoArtifacts == [k \in {} |-> "none"]

\* serde_json::Value: the variant t and its payload (number n, string s as a
\* sequence of characters, array a, object o as a function of its keys)
Null == [t |-> "null", n |-> 0, s |-> <<>>, a |-> <<>>, o |-> <<>>]

Num(n) == [t |-> "num", n |-> n, s |-> <<>>, a |-> <<>>, o |-> <<>>]

Str(s) == [t |-> "str", n |-> 0, s |-> s, a |-> <<>>, o |-> <<>>]

Arr(a) == [t |-> "arr", n |-> 0, s |-> <<>>, a |-> a, o |-> <<>>]

Obj(o) == [t |-> "obj", n |-> 0, s |-> <<>>, a |-> <<>>, o |-> o]

----------------------------------------------------------------------------
(* ManagerAgent: pure helpers *)

\* variant of Executable: the dependencies of a task are not looked at
Executable_nodeps(all, done) ==
    LET ready(t) == t.id \notin done
    IN  SelectSeq(all, ready)

\* find_executable_tasks, the filter: not done, every dependency done, in plan order
Executable(all, done) ==
    LET ready(t) == t.id \notin done /\ t.deps \subseteq done
    IN  SelectSeq(all, ready)

\* variant of Deadlock: an empty frontier is never reported
Deadlock_never(all, done) == FALSE

\* find_executable_tasks, the deadlock test
Deadlock(all, done) ==
    /\ Executable(all, done) = <<>>
    /\ \E k \in DOMAIN all : all[k].id \notin done

\* variant of AllCompleted: one completed task is enough to leave the loop
AllCompleted_some(all, done) == all = <<>> \/ \E k \in DOMAIN all : all[k].id \in done

\* run_task, loop head: every task of the plan is completed
AllCompleted(all, done) == \A k \in DOMAIN all : all[k].id \in done

\* variant of MergePlan: the tasks that are not completed stay in the plan
MergePlan_keepall(all, done, new_tasks) == all \o new_tasks

\* variant of MergePlan: the plan is replaced by the new tasks
MergePlan_replace(all, done, new_tasks) == new_tasks

\* run_task, the merge after replanning: completed tasks kept, new tasks appended
MergePlan(all, done, new_tasks) ==
    LET kept(t) == t.id \in done
    IN  SelectSeq(all, kept) \o new_tasks

\* verify_with_adjudication, the counts of valid votes
PassCount(votes) == Cardinality({k \in DOMAIN votes : votes[k] = "pass"})

\* variant of FailCount: a vote that could not be obtained counts as a fail
FailCount_invalid(votes) == Cardinality({k \in DOMAIN votes : votes[k] # "pass"})

FailCount(votes) == Cardinality({k \in DOMAIN votes : votes[k] = "fail"})

\* variant of Consensus: every round with a pass vote goes to the adjudicator
Consensus_conflict(pass_count, fail_count) ==
    IF pass_count = 0 THEN "fail" ELSE "conflict"

\* variant of Consensus: the majority of the valid votes decides
Consensus_majority(pass_count, fail_count) ==
    IF pass_count > fail_count THEN "pass" ELSE "fail"

\* verify_with_adjudication, the consensus test
Consensus(pass_count, fail_count) ==
    IF fail_count = 0 THEN "pass"
    ELSE IF pass_count = 0 THEN "fail"
    ELSE "conflict"

\* execute_task_pipeline, the state of a pipeline that has not run yet.
\* skill is current_skill_name, params is current_params ("resolved": the
\* task's parameters after resolve_params_deep, "reflected": parameters the
\* reflector returned), last is last_failure_reason, data the data of the
\* skill result being verified; execs and reflects count the skill and
\* reflector calls.
NewPipe(t) ==
    [task |-> t, pc |-> "start", attempt |-> 0, skill |-> t.skill,
     params |-> "resolved", last |-> "",
     data |-> "none", out |-> NoOut, execs |-> 0, reflects |-> 0]

\* execute_task_pipeline returns: its locals are gone, the result remains
Finish(p, out) ==
    [p EXCEPT !.pc = "done", !.out = out, !.attempt = 0, !.skill = p.task.skill,
              !.params = "resolved", !.last = "", !.data = "none"]

\* variant of AfterFailure: the reflector is called after the last attempt too
AfterFailure_more(p, reason) ==
    LET q == [p EXCEPT !.last = reason, !.data = "none"]
    IN  IF q.attempt <= max_retries
        THEN [q EXCEPT !.pc = "reflect"]
        ELSE Finish(q, Outcome(FALSE, "none", q.last))

\* execute_task_pipeline after a failed attempt: last_failure_reason is set;
\* the reflector is called while attempt < max_retries, else the loop is left
\* and the retries-exhausted result carries last_failure_reason as feedback
AfterFailure(p, reason) ==
    LET q == [p EXCEPT !.last = reason, !.data = "none"]
    IN  IF q.attempt < max_retries
        THEN [q EXCEPT !.pc = "reflect"]
        ELSE Finish(q, Outcome(FALSE, "none", q.last))

\* execute_task_pipeline, the verified-pass return
Passed(p) == Finish(p, Outcome(TRUE, p.data, "none"))

\* variant of SkillMissing: the summary is given as verification feedback too
SkillMissing_feedback(p) == Finish(p, Outcome(FALSE, "none", "Skill not found"))

\* variant of SkillMissing: a missing skill is a failed attempt like any other
SkillMissing_retry(p) == AfterFailure(p, "Skill not found")

\* execute_task_pipeline, head of an attempt when the skill is not registered
SkillMissing(p) == Finish(p, Outcome(FALSE, "none", "none"))

\* execute_task_pipeline, the verification result with ?: an error of the
\* adjudicator call or of the parse of its verdict leaves the pipeline
AdjudicatorFailed(p) == Finish(p, OutErr)

\* variant of Rerouted: a proposed skill that is not registered is dropped and
\* the current skill is kept
Rerouted_checked(p, new_skill) ==
    [p EXCEPT !.pc = "start", !.attempt = @ + 1, !.reflects = @ + 1,
              !.skill = IF new_skill \in Registry THEN new_skill ELSE @,
              !.params = "reflected"]

\* variant of Rerouted: the proposal of the reflector is not taken over
Rerouted_ignored(p, new_skill) ==
    [p EXCEPT !.pc = "start", !.attempt = @ + 1, !.reflects = @ + 1]

\* execute_task_pipeline, Ok of reflect_and_reroute: the skill and the
\* parameters are replaced and the next attempt begins
Rerouted(p, new_skill) ==
    [p EXCEPT !.pc = "start", !.attempt = @ + 1, !.reflects = @ + 1,
              !.skill = new_skill, !.params = "reflected"]

\* variant of ReflectFailed: the pipeline goes back to the task's own skill
\* and parameters
ReflectFailed_reset(p) ==
    [p EXCEPT !.pc = "start", !.attempt = @ + 1, !.reflects = @ + 1,
              !.skill = p.task.skill, !.params = "resolved"]

\* execute_task_pipeline, Err of reflect_and_reroute: skill and parameters
\* kept, next attempt
ReflectFailed(p) ==
    [p EXCEPT !.pc = "start", !.attempt = @ + 1, !.reflects = @ + 1]

\* variant of Reason: the feedback of the result is not looked at
Reason_unknown(out) == "Unknown"

\* process_execution_results, the reason put into failure_info
Reason(out) == IF out.feedback = "none" THEN "Unknown" ELSE out.feedback

\* process_execution_results, one iteration of the loop for an Ok(TaskResult)
FoldCompleted(done, id, out) == IF out.success THEN done \cup {id} ELSE done

FoldLog(log, id, out) == IF out.success THEN Append(log, id) ELSE log

\* a history line is modelled by its kind and the task id it names
FoldHistory(h, id, out) ==
    IF out.success THEN Append(h, <<"success", id>>) ELSE Append(h, <<"failure", id>>)

\* variant of FoldArtifacts: every successful result is inserted
FoldArtifacts_any(a, id, out) ==
    IF out.success
    THEN [k \in DOMAIN a \cup {id} |-> IF k = id THEN out.data ELSE a[k]]
    ELSE a

FoldArtifacts(a, id, out) ==
    IF out.success /\ out.data # "none"
    THEN [k \in DOMAIN a \cup {id} |-> IF k = id THEN out.data ELSE a[k]]
    ELSE a

\* variant of FoldFailure: failure_info keeps the first failure of the batch
FoldFailure_first(f, id, out) ==
    IF out.success \/ f.batch_failed
    THEN [f EXCEPT !.idx = f.idx + 1, !.batch_failed = f.batch_failed \/ ~out.success]
    ELSE [idx |-> f.idx + 1, batch_failed |-> TRUE, failure_info |-> <<id, Reason(out)>>]

\* process_execution_results, the failure branch: batch_failed is set and
\* failure_info is overwritten by every failed result
FoldFailure(f, id, out) ==
    IF out.success
    THEN [f EXCEPT !.idx = f.idx + 1]
    ELSE [idx |-> f.idx + 1, batch_failed |-> TRUE, failure_info |-> <<id, Reason(out)>>]

----------------------------------------------------------------------------
(* Initial state: run_task after the user instruction is logged           *)

Init ==
    /\ mode = "task"
    /\ pc = "plan"
    /\ initial_plan = <<>>
    /\ current_plan_tasks = <<>>
    /\ completed_tasks_ids = {}
    /\ task_results_history = <<>>
    /\ global_replan_count = 0
    /\ history = << <<"user", "">> >>
    /\ artifacts = NoArtifacts
    /\ lock = 0
    /\ pipes = <<>>
    /\ fold = NoFold
    /\ round = 0
    /\ turns = <<>>
    /\ max_turns = 0
    /\ speaker = ""
    /\ core = NoRet
    /\ ret = NoRet
    /\ saves = 0
    /\ calls = NoCalls
    /\ params = Null
    /\ resolved = <<>>
    /\ input = <<>>
    /\ cleaned = <<>>

Return(r) == pc' = "done" /\ ret' = r

----------------------------------------------------------------------------
(* run_task: planning and review *)

\* make_plan: the call fails, the response does not parse, or it is a plan
MakePlanWith(resp, plan) ==
    /\ mode = "task" /\ pc = "plan"
    /\ IF resp = "plan"
       THEN /\ initial_plan' = plan
            /\ pc' = "review"
            /\ ret' = ret
       ELSE /\ Return(RetErr("plan", <<>>))
            /\ initial_plan' = initial_plan
    /\ UNCHANGED <<mode, current_plan_tasks, completed_tasks_ids, task_results_history,
                   global_replan_count, history, artifacts, lock, pipes, fold,
                   debateVars, fnVars, saves, calls>>

MakePlan ==
    \E resp \in {"call_err", "parse_err", "plan"} :
        \E plan \in IF resp = "plan" THEN Plans ELSE {<<>>} : MakePlanWith(resp, plan)

\* variant of ReviewPlanWith: a response that does not parse is fatal too
ReviewPlanWith_strict(resp, plan) ==
    /\ mode = "task" /\ pc = "review"
    /\ IF resp = "plan"
       THEN /\ current_plan_tasks' = plan
            /\ pc' = "loop"
            /\ ret' = ret
       ELSE /\ Return(RetErr("review", <<>>))
            /\ current_plan_tasks' = current_plan_tasks
    /\ initial_plan' = <<>>
    /\ UNCHANGED <<mode, completed_tasks_ids, task_results_history,
                   global_replan_count, history, artifacts, lock, pipes, fold,
                   debateVars, fnVars, saves, calls>>

\* review_and_refine_plan: the call fails (fatal), the response does not parse
\* (the initial plan is kept), or it is a plan
ReviewPlanWith(resp, plan) ==
    /\ mode = "task" /\ pc = "review"
    /\ CASE resp = "call_err" ->
                /\ Return(RetErr("review", <<>>))
                /\ current_plan_tasks' = current_plan_tasks
           [] resp = "parse_err" ->
                /\ current_plan_tasks' = initial_plan
                /\ pc' = "loop"
                /\ ret' = ret
           [] OTHER ->
                /\ current_plan_tasks' = plan
                /\ pc' = "loop"
                /\ ret' = ret
    /\ initial_plan' = <<>>
    /\ UNCHANGED <<mode, completed_tasks_ids, task_results_history,
                   global_replan_count, history, artifacts, lock, pipes, fold,
                   debateVars, fnVars, saves, calls>>

ReviewPlan ==
    \E resp \in {"call_err", "parse_err", "plan"} :
        \E plan \in IF resp = "plan" THEN Plans ELSE {<<>>} : ReviewPlanWith(resp, plan)

\* run_task, loop head: leave the loop, fail with the deadlock error, or start
\* the batch (execute_batch_parallel: snapshot under the lock, one future per task)
Schedule ==
    /\ mode = "task" /\ pc = "loop"
    /\ IF AllCompleted(current_plan_tasks, completed_tasks_ids)
       THEN /\ pc' = "synth"
            /\ UNCHANGED <<ret, pipes>>
       ELSE IF Deadlock(current_plan_tasks, completed_tasks_ids)
       THEN /\ Return(RetErr("deadlock", <<>>))
            /\ pipes' = pipes
       ELSE /\ lock = 0
            /\ LET exe == Executable(current_plan_tasks, completed_tasks_ids)
               IN  pipes' = [k \in DOMAIN exe |-> NewPipe(exe[k])]
            /\ pc' = "batch"
            /\ ret' = ret
    /\ fold' = NoFold
    /\ UNCHANGED <<mode, initial_plan, current_plan_tasks, completed_tasks_ids,
                   task_results_history, global_replan_count, history, artifacts,
                   lock, debateVars, fnVars, saves, calls>>

----------------------------------------------------------------------------
(* execute_task_pipeline: the futures of one batch, interleaved by join_all *)

Running(i) == mode = "task" /\ pc = "batch" /\ i \in DOMAIN pipes

PipeFrame ==
    UNCHANGED <<mode, pc, initial_plan, current_plan_tasks, completed_tasks_ids,
                task_results_history, global_replan_count, history, artifacts,
                fold, debateVars, fnVars, ret, saves, calls>>

\* variant of BeginAttempt: the skill is called without the context lock
BeginAttempt_nolock(i) ==
    /\ Running(i) /\ pipes[i].pc = "start"
    /\ IF pipes[i].skill \in Registry
       THEN /\ lock' = i
            /\ pipes' = [pipes EXCEPT ![i].pc = "exec", ![i].execs = @ + 1]
       ELSE /\ lock' = lock
            /\ pipes' = [pipes EXCEPT ![i] = SkillMissing(@)]
    /\ PipeFrame

\* head of an attempt: an unregistered skill ends the pipeline; a registered one
\* is called once the context lock is acquired
BeginAttempt(i) ==
    /\ Running(i) /\ pipes[i].pc = "start"
    /\ IF pipes[i].skill \in Registry
       THEN /\ lock = 0
            /\ lock' = i
            /\ pipes' = [pipes EXCEPT ![i].pc = "exec", ![i].execs = @ + 1]
       ELSE /\ lock' = lock
            /\ pipes' = [pipes EXCEPT ![i] = SkillMissing(@)]
    /\ PipeFrame

\* variant of SkillReturnWith: the lock guard outlives the skill call
SkillReturnWith_keep(i, r) ==
    /\ Running(i) /\ pipes[i].pc = "exec"
    /\ lock' = lock
    /\ pipes' = [pipes EXCEPT ![i] =
                    IF r = "err" THEN AfterFailure(@, "Runtime Error")
                    ELSE [@ EXCEPT !.pc = "verify", !.data = r]]
    /\ PipeFrame

\* skill.execute returns Ok(result) or Err(e); the lock guard is dropped
SkillReturnWith(i, r) ==
    /\ Running(i) /\ pipes[i].pc = "exec"
    /\ lock' = 0
    /\ pipes' = [pipes EXCEPT ![i] =
                    IF r = "err" THEN AfterFailure(@, "Runtime Error")
                    ELSE [@ EXCEPT !.pc = "verify", !.data = r]]
    /\ PipeFrame

SkillReturn(i) ==
    /\ Running(i)
    /\ \E r \in SkillResults(pipes[i].skill) : SkillReturnWith(i, r)

\* verify_with_adjudication up to the consensus test: the votes are joined,
\* each one passed, failed or dropped (call or parse failure)
VerifyWith(i, votes) ==
    /\ Running(i) /\ pipes[i].pc = "verify"
    /\ LET c == Consensus(PassCount(votes), FailCount(votes))
       IN  pipes' = [pipes EXCEPT ![i] =
                        CASE c = "pass" -> Passed(@)
                          [] c = "fail" -> AfterFailure(@, "Unanimous Fail")
                          [] OTHER -> [@ EXCEPT !.pc = "adjudicate"]]
    /\ lock' = lock
    /\ PipeFrame

VoteVectors == [1..NumVotes -> {"pass", "fail", "invalid"}]

Verify(i) == \E votes \in VoteVectors : VerifyWith(i, votes)

\* verify_with_adjudication, the adjudicator: the call or the parse fails (the
\* error leaves the pipeline with ?), or final_decision decides the round
AdjudicateWith(i, r) ==
    /\ Running(i) /\ pipes[i].pc = "adjudicate"
    /\ pipes' = [pipes EXCEPT ![i] =
                    CASE r = "true" -> Passed(@)
                      [] r = "false" -> AfterFailure(@, "rationale")
                      [] OTHER -> AdjudicatorFailed(@)]
    /\ lock' = lock
    /\ PipeFrame

Adjudicate(i) ==
    \E r \in {"call_err", "parse_err", "true", "false"} : AdjudicateWith(i, r)

\* reflect_and_reroute: on Ok the skill is replaced, on Err it is kept; the loop
\* goes on to the next attempt
ReflectWith(i, r) ==
    /\ Running(i) /\ pipes[i].pc = "reflect"
    /\ pipes' = [pipes EXCEPT ![i] =
                    IF r = "err" THEN ReflectFailed(@) ELSE Rerouted(@, r)]
    /\ lock' = lock
    /\ PipeFrame

Reflect(i) == \E r \in SkillNames \cup {"err"} : ReflectWith(i, r)

----------------------------------------------------------------------------
(* run_task: fold, replanning, synthesis, persistence *)

\* variant of AllDone: the results are taken without waiting for the futures
AllDone_nowait == TRUE

\* join_all has returned: every future of the batch is finished
AllDone == \A i \in DOMAIN pipes : pipes[i].pc = "done"

\* variant of FoldStep: the error of a pipeline is counted as a failed task
FoldStep_skip ==
    /\ mode = "task" /\ pc = "batch" /\ AllDone
    /\ fold.idx < Len(pipes)
    /\ LET res == pipes[fold.idx + 1].out
           id  == pipes[fold.idx + 1].task.id
       IN  IF res.kind = "error"
           THEN /\ fold' = [fold EXCEPT !.idx = @ + 1, !.batch_failed = TRUE]
                /\ UNCHANGED <<completed_tasks_ids, task_results_history, history,
                               artifacts, pc, ret>>
           ELSE /\ lock = 0
                /\ completed_tasks_ids' = FoldCompleted(completed_tasks_ids, id, res)
                /\ task_results_history' = FoldLog(task_results_history, id, res)
                /\ history' = FoldHistory(history, id, res)
                /\ artifacts' = FoldArtifacts(artifacts, id, res)
                /\ fold' = FoldFailure(fold, id, res)
                /\ UNCHANGED <<pc, ret>>
    /\ UNCHANGED <<mode, initial_plan, current_plan_tasks, global_replan_count, lock,
                   pipes, debateVars, fnVars, saves, calls>>

\* process_execution_results, one iteration: res? returns the pipeline's error,
\* an outcome is folded under the context lock
FoldStep ==
    /\ mode = "task" /\ pc = "batch" /\ AllDone
    /\ fold.idx < Len(pipes)
    /\ LET res == pipes[fold.idx + 1].out
           id  == pipes[fold.idx + 1].task.id
       IN  IF res.kind = "error"
           THEN /\ Return(RetErr("pipeline", <<>>))
                /\ UNCHANGED <<completed_tasks_ids, task_results_history, history,
                               artifacts, fold>>
           ELSE /\ lock = 0
                /\ completed_tasks_ids' = FoldCompleted(completed_tasks_ids, id, res)
                /\ task_results_history' = FoldLog(task_results_history, id, res)
                /\ history' = FoldHistory(history, id, res)
                /\ artifacts' = FoldArtifacts(artifacts, id, res)
                /\ fold' = FoldFailure(fold, id, res)
                /\ UNCHANGED <<pc, ret>>
    /\ UNCHANGED <<mode, initial_plan, current_plan_tasks, global_replan_count, lock,
                   pipes, debateVars, fnVars, saves, calls>>

\* variant of AfterBatch: the budget test is > instead of >=
AfterBatch_gt ==
    /\ mode = "task" /\ pc = "batch" /\ \A i \in DOMAIN pipes : pipes[i].pc = "done"
    /\ fold.idx = Len(pipes)
    /\ IF ~fold.batch_failed
       THEN /\ pc' = "loop"
            /\ UNCHANGED <<ret, global_replan_count>>
       ELSE IF global_replan_count > MAX_GLOBAL_REPLANS
       THEN /\ Return(RetErr("budget", fold.failure_info))
            /\ UNCHANGED global_replan_count
       ELSE /\ global_replan_count' = global_replan_count + 1
            /\ pc' = "replan"
            /\ ret' = ret
    /\ pipes' = <<>>
    /\ UNCHANGED <<mode, initial_plan, current_plan_tasks, completed_tasks_ids,
                   task_results_history, history, artifacts, lock, fold,
                   debateVars, fnVars, saves, calls>>

\* run_task after the fold: next batch, replanning, or the budget error
AfterBatch ==
    /\ mode = "task" /\ pc = "batch" /\ AllDone
    /\ fold.idx = Len(pipes)
    /\ IF ~fold.batch_failed
       THEN /\ pc' = "loop"
            /\ UNCHANGED <<ret, global_replan_count>>
       ELSE IF global_replan_count >= MAX_GLOBAL_REPLANS
       THEN /\ Return(RetErr("budget", fold.failure_info))
            /\ UNCHANGED global_replan_count
       ELSE /\ global_replan_count' = global_replan_count + 1
            /\ pc' = "replan"
            /\ ret' = ret
    /\ pipes' = <<>>
    /\ UNCHANGED <<mode, initial_plan, current_plan_tasks, completed_tasks_ids,
                   task_results_history, history, artifacts, lock, fold,
                   debateVars, fnVars, saves, calls>>

\* replan_remaining_tasks and the merge of its tasks into the plan
ReplanWith(resp, new_tasks) ==
    /\ mode = "task" /\ pc = "replan"
    /\ calls' = [calls EXCEPT !.replan = @ + 1]
    /\ IF resp = "plan"
       THEN /\ current_plan_tasks' =
                    MergePlan(current_plan_tasks, completed_tasks_ids, new_tasks)
            /\ pc' = "loop"
            /\ ret' = ret
       ELSE /\ Return(RetErr("replan", <<>>))
            /\ current_plan_tasks' = current_plan_tasks
    /\ fold' = NoFold
    /\ UNCHANGED <<mode, initial_plan, completed_tasks_ids, task_results_history,
                   global_replan_count, history, artifacts, lock, pipes,
                   debateVars, fnVars, saves>>

Replan ==
    \E resp \in {"call_err", "parse_err", "plan"} :
        \E new_tasks \in IF resp = "plan" THEN Replans ELSE {<<>>} :
            ReplanWith(resp, new_tasks)

\* synthesize_final_result: history and artifacts are read under the lock, then
\* the call; a failure of the call or of the parse returns with ?
SynthesizeWith(resp) ==
    /\ mode = "task" /\ pc = "synth"
    /\ lock = 0
    /\ calls' = [calls EXCEPT !.synth = @ + 1]
    /\ IF resp = "ok"
       THEN pc' = "save" /\ ret' = ret
       ELSE Return(RetErr("synth", <<>>))
    /\ UNCHANGED <<mode, taskVars, history, artifacts, lock, debateVars, fnVars, saves>>

Synthesize == \E resp \in {"call_err", "parse_err", "ok"} : SynthesizeWith(resp)

\* variant of PersistWith: an error of save is returned to the caller
PersistWith_mask(r) ==
    /\ mode = "task" /\ pc = "save"
    /\ lock = 0
    /\ saves' = saves + 1
    /\ Return(IF r = "err" THEN RetErr("save", <<>>) ELSE RetOk)
    /\ UNCHANGED <<mode, taskVars, history, artifacts, lock, debateVars, fnVars, calls>>

\* persist_context, then Ok(final_result): the result of save is discarded
PersistWith(r) ==
    /\ mode = "task" /\ pc = "save"
    /\ lock = 0
    /\ saves' = saves + 1
    /\ Return(RetOk)
    /\ UNCHANGED <<mode, taskVars, history, artifacts, lock, debateVars, fnVars, calls>>

PersistAndReturn == \E r \in {"ok", "err"} : PersistWith(r)

Next ==
    \/ MakePlan
    \/ ReviewPlan
    \/ Schedule
    \/ \E i \in 1..MaxPlanLen : BeginAttempt(i)
    \/ \E i \in 1..MaxPlanLen : SkillReturn(i)
    \/ \E i \in 1..MaxPlanLen : Verify(i)
    \/ \E i \in 1..MaxPlanLen : Adjudicate(i)
    \/ \E i \in 1..MaxPlanLen : Reflect(i)
    \/ FoldStep
    \/ AfterBatch
    \/ Replan
    \/ Synthesize
    \/ PersistAndReturn

Spec == Init /\ [][Next]_vars

----------------------------------------------------------------------------
(* DebateHost::run_debate *)

\* run_debate after the topic is logged, for a host built with max_turns
DebateInit ==
    /\ mode = "debate"
    /\ pc = "head"
    /\ initial_plan = <<>>
    /\ current_plan_tasks = <<>>
    /\ completed_tasks_ids = {}
    /\ task_results_history = <<>>
    /\ global_replan_count = 0
    /\ history = << <<"topic", "">> >>
    /\ artifacts = NoArtifacts
    /\ lock = 0
    /\ pipes = <<>>
    /\ fold = NoFold
    /\ round = 1
    /\ turns = <<>>
    /\ max_turns \in 0..MaxTurns
    /\ speaker = ""
    /\ core = NoRet
    /\ ret = NoRet
    /\ saves = 0
    /\ calls = NoCalls
    /\ params = Null
    /\ resolved = <<>>
    /\ input = <<>>
    /\ cleaned = <<>>

DebateFrame == UNCHANGED <<mode, taskVars, max_turns, ret, saves, fnVars>>

\* DebateTurn
Turn(r, who, content, data) ==
    [round |-> r, speaker |-> who, content |-> content, artifacts |-> data]

\* run_debate_core, loop head: the turn budget
DebateHead ==
    /\ mode = "debate" /\ pc = "head"
    /\ pc' = IF round > max_turns THEN "synth" ELSE "ask"
    /\ UNCHANGED <<round, turns, speaker, core, history, artifacts, lock, calls>>
    /\ DebateFrame

\* variant of HostDecisionWith: an action that is neither "next" nor "conclude"
\* is an error of the host decision
HostDecisionWith_reject(resp, who) ==
    /\ mode = "debate" /\ pc = "ask"
    /\ calls' = [calls EXCEPT !.host = @ + 1]
    /\ CASE resp \in {"call_err", "parse_err", "other"} ->
                /\ core' = RetErr("host", <<>>)
                /\ pc' = "save"
                /\ UNCHANGED <<round, speaker, lock>>
         [] resp = "next" /\ who \in Registry ->
                /\ lock = 0
                /\ lock' = 1
                /\ speaker' = who
                /\ pc' = "exec"
                /\ UNCHANGED <<round, core>>
         [] resp = "next" /\ who \notin Registry ->
                /\ round' = round + 1
                /\ pc' = "head"
                /\ UNCHANGED <<speaker, core, lock>>
         [] OTHER ->
                /\ pc' = "synth"
                /\ UNCHANGED <<round, speaker, core, lock>>
    /\ UNCHANGED <<turns, history, artifacts>>
    /\ DebateFrame

\* variant of HostDecisionWith: an unknown speaker does not consume the round
HostDecisionWith_free(resp, who) ==
    /\ mode = "debate" /\ pc = "ask"
    /\ calls' = [calls EXCEPT !.host = @ + 1]
    /\ CASE resp \in {"call_err", "parse_err"} ->
                /\ core' = RetErr("host", <<>>)
                /\ pc' = "save"
                /\ UNCHANGED <<round, speaker, lock>>
         [] resp = "next" /\ who \in Registry ->
                /\ lock = 0
                /\ lock' = 1
                /\ speaker' = who
                /\ pc' = "exec"
                /\ UNCHANGED <<round, core>>
         [] resp = "next" /\ who \notin Registry ->
                /\ pc' = "head"
                /\ UNCHANGED <<round, speaker, core, lock>>
         [] OTHER ->
                /\ pc' = "synth"
                /\ UNCHANGED <<round, speaker, core, lock>>
    /\ UNCHANGED <<turns, history, artifacts>>
    /\ DebateFrame

\* ask_host_for_decision and the branch on decision.action: a failure of the
\* call or of the parse ends the core with ?; "conclude" and an unknown action
\* leave the loop; "next" with a registered speaker calls the skill under the
\* context lock, with an unknown speaker it only consumes the round
HostDecisionWith(resp, who) ==
    /\ mode = "debate" /\ pc = "ask"
    /\ calls' = [calls EXCEPT !.host = @ + 1]
    /\ CASE resp \in {"call_err", "parse_err"} ->
                /\ core' = RetErr("host", <<>>)
                /\ pc' = "save"
                /\ UNCHANGED <<round, speaker, lock>>
         [] resp = "next" /\ who \in Registry ->
                /\ lock = 0
                /\ lock' = 1
                /\ speaker' = who
                /\ pc' = "exec"
                /\ UNCHANGED <<round, core>>
         [] resp = "next" /\ who \notin Registry ->
                /\ round' = round + 1
                /\ pc' = "head"
                /\ UNCHANGED <<speaker, core, lock>>
         [] OTHER ->
                /\ pc' = "synth"
                /\ UNCHANGED <<round, speaker, core, lock>>
    /\ UNCHANGED <<turns, history, artifacts>>
    /\ DebateFrame

HostDecision ==
    \E resp \in {"call_err", "parse_err", "conclude", "next", "other"} :
        \E who \in IF resp = "next" THEN SkillNames ELSE {""} :
            HostDecisionWith(resp, who)

\* variant of DebateSkillReturnWith: an error of the skill ends the core
DebateSkillReturnWith_fatal(r) ==
    /\ mode = "debate" /\ pc = "exec"
    /\ IF r = "err"
       THEN /\ turns' = Append(turns, Turn(round, speaker, "ERROR", "none"))
            /\ history' = Append(history, <<"failed", speaker>>)
            /\ artifacts' = artifacts
            /\ core' = RetErr("skill", <<>>)
            /\ round' = round
            /\ pc' = "save"
       ELSE /\ turns' = Append(turns, Turn(round, speaker, "summary", r))
            /\ history' = Append(history, <<"turn", speaker>>)
            /\ artifacts' =
                 IF r = "none" THEN artifacts
                 ELSE [k \in DOMAIN artifacts \cup {<<speaker, round>>} |->
                          IF k = <<speaker, round>> THEN r ELSE artifacts[k]]
            /\ core' = core
            /\ round' = round + 1
            /\ pc' = "head"
    /\ lock' = 0
    /\ speaker' = ""
    /\ calls' = calls
    /\ DebateFrame

\* skill.execute returns under the lock: the turn is recorded, Ok also logs the
\* summary and stores the data under "{speaker}_r{round}", Err logs FAILED
DebateSkillReturnWith(r) ==
    /\ mode = "debate" /\ pc = "exec"
    /\ IF r = "err"
       THEN /\ turns' = Append(turns, Turn(round, speaker, "ERROR", "none"))
            /\ history' = Append(history, <<"failed", speaker>>)
            /\ artifacts' = artifacts
       ELSE /\ turns' = Append(turns, Turn(round, speaker, "summary", r))
            /\ history' = Append(history, <<"turn", speaker>>)
            /\ artifacts' =
                 IF r = "none" THEN artifacts
                 ELSE [k \in DOMAIN artifacts \cup {<<speaker, round>>} |->
                          IF k = <<speaker, round>> THEN r ELSE artifacts[k]]
    /\ lock' = 0
    /\ speaker' = ""
    /\ round' = round + 1
    /\ pc' = "head"
    /\ UNCHANGED <<core, calls>>
    /\ DebateFrame

DebateSkillReturn ==
    /\ mode = "debate" /\ pc = "exec"
    /\ \E r \in SkillResults(speaker) : DebateSkillReturnWith(r)

\* synthesize_result: the end of run_debate_core, Ok or Err
DebateSynthesizeWith(resp) ==
    /\ mode = "debate" /\ pc = "synth"
    /\ calls' = [calls EXCEPT !.synth = @ + 1]
    /\ core' = IF resp = "ok" THEN RetOk ELSE RetErr("synth", <<>>)
    /\ pc' = "save"
    /\ UNCHANGED <<round, turns, speaker, history, artifacts, lock>>
    /\ DebateFrame

DebateSynthesize ==
    \E resp \in {"call_err", "parse_err", "ok"} : DebateSynthesizeWith(resp)

\* variant of DebateSaveWith: the result is returned without the save
DebateSaveWith_skip(r) ==
    /\ mode = "debate" /\ pc = "save"
    /\ lock = 0
    /\ saves' = saves
    /\ Return(core)
    /\ UNCHANGED <<mode, taskVars, debateVars, fnVars, history, artifacts, lock, calls>>

\* run_debate after the core: store.save under the lock, its error is logged,
\* the result of the core is returned
DebateSaveWith(r) ==
    /\ mode = "debate" /\ pc = "save"
    /\ lock = 0
    /\ saves' = saves + 1
    /\ Return(core)
    /\ UNCHANGED <<mode, taskVars, debateVars, fnVars, history, artifacts, lock, calls>>

DebateSave == \E r \in {"ok", "err"} : DebateSaveWith(r)

DebateNext ==
    \/ DebateHead
    \/ HostDecision
    \/ DebateSkillReturn
    \/ DebateSynthesize
    \/ DebateSave

DebateSpec == DebateInit /\ [][DebateNext]_vars

----------------------------------------------------------------------------
(* Properties *)

\* C1: on every exit path of run_task (success, planning, review, replanning or
\* synthesis failure, deadlock, budget exceeded) ContextStore::save has been
\* called exactly once when the result is returned.
C1_SaveOnEveryExit == (mode = "task" /\ ret.kind # "none") => saves = 1

\* C2: on every exit path of run_debate (success, host-decision call or parse
\* failure, synthesis failure) ContextStore::save is called exactly once, after
\* the debate core has finished, and the caller gets the result of the core
\* only once the save is made.
C2_DebateSavedOnce ==
    /\ saves <= 1
    /\ ret.kind # "none" => (saves = 1 /\ ret = core)
    /\ saves = 1 => core.kind # "none"

\* a debate whose host decision failed has returned its error after the save
C2_HostFailureSaved ==
    mode = "debate" /\ ret.kind = "err" /\ ret.why = "host" /\ saves = 1

\* C3: while a pipeline of a batch runs, every dependency of its task is in
\* completed_tasks_ids and the task's own id is not; no task of a batch depends
\* on a task of the same batch, so a task that depends on itself or on an id
\* that is not completed is never given a pipeline.
C3_StartsAfterDependencies ==
    \A i \in DOMAIN pipes :
        /\ pipes[i].pc # "done" =>
                /\ pipes[i].task.deps \subseteq completed_tasks_ids
                /\ pipes[i].task.id \notin completed_tasks_ids
        /\ \A j \in DOMAIN pipes : pipes[j].task.id \notin pipes[i].task.deps

\* the skill of a task with a dependency has been executed
C3_DependentTaskStarted ==
    \E i \in DOMAIN pipes : pipes[i].task.deps # {} /\ pipes[i].execs >= 1

\* the frontier computed at the loop head is empty
FrontierEmpty ==
    \A k \in DOMAIN current_plan_tasks :
        \/ current_plan_tasks[k].id \in completed_tasks_ids
        \/ ~(current_plan_tasks[k].deps \subseteq completed_tasks_ids)

SomeIncomplete ==
    \E k \in DOMAIN current_plan_tasks :
        current_plan_tasks[k].id \notin completed_tasks_ids

\* C4: when the frontier is empty at the loop head while a task of the plan is
\* not completed, the very next step of run_task returns the deadlock error,
\* starting no pipeline and calling no backend; nothing happens after that
\* return, whatever replan budget remains.
C4_DeadlockAtOnce ==
    [][ /\ (mode = "task" /\ pc = "loop" /\ FrontierEmpty /\ SomeIncomplete) =>
                /\ pc' = "done"
                /\ ret' = RetErr("deadlock", <<>>)
                /\ pipes' = <<>>
                /\ calls' = calls
                /\ global_replan_count' = global_replan_count
        /\ ret.why # "deadlock" ]_vars

\* the run ended in the deadlock error with replan budget left
C4_DeadlockWithBudgetLeft ==
    /\ pc = "done" /\ ret = RetErr("deadlock", <<>>)
    /\ global_replan_count = 1

\* the step in which the running attempt of pipeline i fails for the reason
FailedAttempt(i, reason) ==
    \/ reason = "Runtime Error" /\ SkillReturnWith(i, "err")
    \/ /\ reason = "Unanimous Fail"
       /\ \E votes \in VoteVectors :
            /\ \E k \in DOMAIN votes : votes[k] = "fail"
            /\ \A k \in DOMAIN votes : votes[k] # "pass"
            /\ VerifyWith(i, votes)
    \/ reason = "rationale" /\ AdjudicateWith(i, "false")

\* C5: a pipeline executes the skill at most 3 times and calls the reflector at
\* most 2 times; the failure of the third attempt is followed by no reflection
\* and ends the pipeline with a failed outcome whose feedback is the reason of
\* that last failure.
C5_RetryBudget ==
    /\ [](\A i \in DOMAIN pipes :
            /\ pipes[i].execs <= 3
            /\ pipes[i].reflects <= 2
            /\ pipes[i].pc = "reflect" => pipes[i].attempt < 2)
    /\ [][\A i \in DOMAIN pipes :
            \A reason \in {"Runtime Error", "Unanimous Fail", "rationale"} :
                (pipes[i].attempt = 2 /\ FailedAttempt(i, reason)) =>
                    /\ pipes'[i].pc = "done"
                    /\ pipes'[i].out = Outcome(FALSE, "none", reason)
                    /\ pipes'[i].reflects = pipes[i].reflects]_vars

\* a pipeline has used up its three executions and two reflections
C5_RetriesExhausted ==
    \E i \in DOMAIN pipes :
        /\ pipes[i].pc = "done"
        /\ pipes[i].out = Outcome(FALSE, "none", "rationale")
        /\ pipes[i].execs = 3
        /\ pipes[i].reflects = 2

\* C6: global_replan_count never exceeds 3 and the replanner is called at most
\* 3 times; a batch that has failed while the counter is 3 ends the run with an
\* error in the next step, without a replanner call.
C6_ReplanBudget ==
    /\ [](global_replan_count <= 3 /\ calls.replan <= 3)
    /\ [][(/\ mode = "task" /\ pc = "batch"
           /\ \A i \in DOMAIN pipes : pipes[i].pc = "done"
           /\ fold.idx = Len(pipes)
           /\ fold.batch_failed
           /\ global_replan_count = 3) =>
                /\ pc' = "done"
                /\ ret'.kind = "err" /\ ret'.why = "budget"
                /\ calls' = calls
                /\ global_replan_count' = 3]_vars

\* the run was aborted by a failed batch after three replans
C6_BudgetExceeded ==
    /\ pc = "done" /\ ret.kind = "err" /\ ret.why = "budget"
    /\ global_replan_count = 3 /\ calls.replan = 3

\* the verification round of pipeline i ends in this step with a pass
RoundPassed(i) ==
    /\ pipes'[i].pc = "done"
    /\ pipes'[i].out = Outcome(TRUE, pipes[i].data, "none")

\* the verification round of pipeline i ends in this step with a fail
RoundFailed(i) ==
    \/ pipes'[i].pc = "reflect" /\ pipes'[i].last # ""
    \/ /\ pipes'[i].pc = "done"
       /\ pipes'[i].out.kind = "outcome"
       /\ ~pipes'[i].out.success

\* C7: a round of 3 valid votes passes without the adjudicator when all passed,
\* fails without the adjudicator when all failed, and otherwise goes to the
\* adjudicator, which is called once and whose final_decision is the result.
C7_Consensus ==
    [][\A i \in DOMAIN pipes :
        /\ \A votes \in [1..3 -> {"pass", "fail"}] :
             VerifyWith(i, votes) =>
                IF \A k \in 1..3 : votes[k] = "pass" THEN RoundPassed(i)
                ELSE IF \A k \in 1..3 : votes[k] = "fail" THEN RoundFailed(i)
                ELSE pipes'[i] = [pipes[i] EXCEPT !.pc = "adjudicate"]
        /\ AdjudicateWith(i, "true") => RoundPassed(i)
        /\ AdjudicateWith(i, "false") => RoundFailed(i)
        /\ (pipes[i].pc # "verify" /\ i \in DOMAIN pipes') =>
                (pipes'[i].pc = "adjudicate" => pipes[i].pc = "adjudicate")
        /\ (pipes[i].pc = "adjudicate" /\ pipes' # pipes /\ i \in DOMAIN pipes') =>
                (pipes'[i] = pipes[i] \/ pipes'[i].pc # "adjudicate") ]_vars

\* a round of conflicting votes has been decided by the adjudicator's
\* final_decision = false in the last attempt
C7_AdjudicatorDecided ==
    \E i \in DOMAIN pipes :
        pipes[i].pc = "done" /\ pipes[i].out = Outcome(FALSE, "none", "rationale")

\* C8: every pipeline returns an outcome value, never an error, so the
\* error-propagating branch of process_execution_results is never taken.
C8_PipelinesReturnOutcomes ==
    /\ \A i \in DOMAIN pipes : pipes[i].out.kind # "error"
    /\ ret.why # "pipeline"

\* C9: an artifact entry, once inserted, is never removed and never replaced.
C9_ArtifactsNeverReplaced ==
    [][mode = "task" =>
         \A k \in DOMAIN artifacts :
            k \in DOMAIN artifacts' /\ artifacts'[k] = artifacts[k]]_vars

\* the ids whose result is folded in this step as a success carrying data
FoldedWithData ==
    IF fold'.idx = fold.idx + 1 /\ fold'.idx \in DOMAIN pipes
    THEN LET p == pipes[fold'.idx]
         IN  IF p.out.kind = "outcome" /\ p.out.success /\ p.out.data # "none"
             THEN {p.task.id} ELSE {}
    ELSE {}

\* C10: the artifact keys are ids of completed tasks, and they grow exactly by
\* the id of each folded successful result that carries data: a failed result
\* and a successful result without data leave the artifacts as they are.
C10_ArtifactKeys ==
    /\ [](mode = "task" => DOMAIN artifacts \subseteq completed_tasks_ids)
    /\ [][mode = "task" =>
            /\ DOMAIN artifacts' = DOMAIN artifacts \cup FoldedWithData
            /\ FoldedWithData = {} => artifacts' = artifacts]_vars

\* after a fold, one completed task has an artifact and another has none
C10_DataAndNoData ==
    /\ pc = "loop"
    /\ DOMAIN artifacts = {"t1"}
    /\ completed_tasks_ids = {"t1", "t2"}

\* C11: every id in completed_tasks_ids is the id of a task of the current plan,
\* after every fold step and after every replanner merge.
C11_CompletedInPlan ==
    mode = "task" => completed_tasks_ids \subseteq Ids(current_plan_tasks)

\* a merge was made while a task was completed
C11_MergedWithCompleted ==
    /\ pc = "loop" /\ calls.replan >= 1
    /\ completed_tasks_ids # {}

\* the dependency edges <<id, dependency>> of a task list
Edges(tasks) ==
    UNION { { <<tasks[k].id, d>> : d \in tasks[k].deps } : k \in DOMAIN tasks }

RECURSIVE Closure(_, _)
\* the paths of at most n + 1 edges of E, as pairs <<from, to>>
Closure(E, n) ==
    IF n = 0 THEN E
    ELSE LET C == Closure(E, n - 1)
         IN  C \cup { <<q[1][1], q[2][2]>> :
                          q \in { r \in C \X E : r[1][2] = r[2][1] } }

Acyclic(tasks) ==
    \A e \in Closure(Edges(tasks), Cardinality(Edges(tasks))) : e[1] # e[2]

\* C12: after every replanner merge the dependency relation of the current
\* plan is acyclic, whatever the replanner returned.
C12_AcyclicAfterMerge ==
    [][(mode = "task" /\ pc = "replan" /\ pc' = "loop") =>
            Acyclic(current_plan_tasks')]_vars

----------------------------------------------------------------------------
(* ManagerAgent::resolve_params_deep *)

\* most path segments after the head in a reference string of the inputs
MaxSegs == 2

\* deepest nesting of arrays and objects in an artifact value of the inputs
MaxDepth == 2

\* str::starts_with and str::ends_with
StartsWith(s, pre) == Len(s) >= Len(pre) /\ SubSeq(s, 1, Len(pre)) = pre

EndsWith(s, suf) ==
    Len(s) >= Len(suf) /\ SubSeq(s, Len(s) - Len(suf) + 1, Len(s)) = suf

\* the white space characters of the inputs
Whitespace == {" ", "\n"}

RECURSIVE TrimStart(_)
TrimStart(s) ==
    IF s # <<>> /\ Head(s) \in Whitespace THEN TrimStart(Tail(s)) ELSE s

RECURSIVE TrimEnd(_)
TrimEnd(s) ==
    IF s # <<>> /\ s[Len(s)] \in Whitespace
    THEN TrimEnd(SubSeq(s, 1, Len(s) - 1))
    ELSE s

\* str::trim
Trim(s) == TrimEnd(TrimStart(s))

RECURSIVE Split(_, _)
\* str::split(sep).collect(): the pieces between the separators, never empty
Split(s, sep) ==
    IF \E k \in DOMAIN s : s[k] = sep
    THEN LET k == CHOOSE j \in DOMAIN s :
                    s[j] = sep /\ \A h \in 1..(j - 1) : s[h] # sep
         IN  <<SubSeq(s, 1, k - 1)>> \o Split(SubSeq(s, k + 1, Len(s)), sep)
    ELSE <<s>>

Digits == [c \in {"0", "1"} |-> IF c = "0" THEN 0 ELSE 1]

\* field.parse::<usize>() is Ok: a non-empty string of decimal digits
IsUsize(field) ==
    field # <<>> /\ \A k \in DOMAIN field : field[k] \in DOMAIN Digits

RECURSIVE ParseUsize(_)
ParseUsize(field) ==
    IF field = <<>> THEN 0
    ELSE 10 * ParseUsize(SubSeq(field, 1, Len(field) - 1)) + Digits[field[Len(field)]]

NotFound == [found |-> FALSE, val |-> Null]

\* variant of Follow: only the first segment of the path is followed
Follow_first(current_val, fields) ==
    IF fields = <<>> THEN [found |-> TRUE, val |-> current_val]
    ELSE IF current_val.t = "obj" /\ Head(fields) \in DOMAIN current_val.o
    THEN [found |-> TRUE, val |-> current_val.o[Head(fields)]]
    ELSE IF current_val.t = "arr" /\ Head(fields) = <<"0">> /\ current_val.a # <<>>
    THEN [found |-> TRUE, val |-> current_val.a[1]]
    ELSE NotFound

RECURSIVE Follow(_, _)
\* resolve_params_deep, the path loop: an object is entered by key, an array by
\* index, anything else misses
Follow(current_val, fields) ==
    IF fields = <<>> THEN [found |-> TRUE, val |-> current_val]
    ELSE LET field == Head(fields)
         IN  CASE current_val.t = "obj" ->
                    IF field \in DOMAIN current_val.o
                    THEN Follow(current_val.o[field], Tail(fields))
                    ELSE NotFound
               [] current_val.t = "arr" ->
                    IF IsUsize(field) /\ ParseUsize(field) + 1 \in DOMAIN current_val.a
                    THEN Follow(current_val.a[ParseUsize(field) + 1], Tail(fields))
                    ELSE NotFound
               [] OTHER -> NotFound

RECURSIVE resolve_params_deep(_, _)
resolve_params_deep(p, A) ==
    CASE p.t = "str" ->
            IF StartsWith(p.s, <<"{", "{">>) /\ EndsWith(p.s, <<"}", "}">>)
            THEN LET content == Trim(SubSeq(p.s, 3, Len(p.s) - 2))
                     parts   == Split(content, ".")
                     task_id == parts[1]
                 IN  IF task_id \in DOMAIN A
                     THEN LET r == Follow(A[task_id], Tail(parts))
                          IN  IF r.found THEN r.val ELSE p
                     ELSE p
            ELSE p
      [] p.t = "arr" ->
            Arr([k \in DOMAIN p.a |-> resolve_params_deep(p.a[k], A)])
      [] p.t = "obj" ->
            Obj([k \in DOMAIN p.o |-> resolve_params_deep(p.o[k], A)])
      [] OTHER -> p


\* task ids and path segments of the inputs, as strings of characters
Heads == {<<"a">>, <<"b">>}

Segs == {<<"r">>, <<"0">>}

SegSeqs == UNION { [1..k -> Segs] : k \in 0..MaxSegs }

RECURSIVE Path(_, _)
\* head.seg1.seg2...
Path(head, segs) ==
    IF segs = <<>> THEN head
    ELSE Path(head, SubSeq(segs, 1, Len(segs) - 1)) \o <<".">> \o segs[Len(segs)]

\* {{content}}
Ref(content) == <<"{", "{">> \o content \o <<"}", "}">>

\* the reference strings of the inputs, one of them with blanks inside the braces
RefStrings ==
    { Ref(Path(h, q)) : h \in Heads, q \in SegSeqs }
        \cup { Ref(<<" ">> \o Path(<<"a">>, << <<"r">> >>) \o <<" ">>) }

\* strings that are no reference: plain, one brace pair missing, text around
\* the braces, empty
OtherStrings ==
    { <<"a">>, <<"{", "{", "a", "}">>, <<"a", "}", "}">>,
      <<"{", "{", "a", "}", "}", "r">>, <<>> }

ParamLeaves == {Num(5)} \cup { Str(s) : s \in RefStrings \cup OtherStrings }

\* the parameter trees of the inputs: a leaf, an array or an object of leaves
ParamTrees ==
    ParamLeaves
        \cup { Arr(<<x, Num(5)>>) : x \in ParamLeaves }
        \cup { Obj([k \in {<<"r">>} |-> x]) : x \in ParamLeaves }

\* an artifact may hold a string that is itself a reference
ArtifactLeaves == { Num(5), Str(<<"a">>), Str(Ref(<<"b">>)) }

RECURSIVE Nested(_, _)
\* the values of nesting depth at most d over the leaves
Nested(leaves, d) ==
    IF d = 0 THEN leaves
    ELSE LET V == Nested(leaves, d - 1)
         IN  V \cup {Arr(<<>>), Obj(<<>>)}
               \cup { Arr(<<x>>) : x \in V }
               \cup { Obj([k \in {<<"r">>} |-> x]) : x \in V }

\* the artifact snapshots of the inputs: a nested value under "a", 7 under "b",
\* each of them present or not
Snapshots ==
    { [h \in D |-> IF h = <<"a">> THEN v ELSE Num(7)] :
        D \in SUBSET Heads, v \in Nested(ArtifactLeaves, MaxDepth) }

ResolveInit ==
    /\ mode = "resolve"
    /\ pc = "call"
    /\ initial_plan = <<>>
    /\ current_plan_tasks = <<>>
    /\ completed_tasks_ids = {}
    /\ task_results_history = <<>>
    /\ global_replan_count = 0
    /\ history = <<>>
    /\ artifacts \in Snapshots
    /\ lock = 0
    /\ pipes = <<>>
    /\ fold = NoFold
    /\ round = 0
    /\ turns = <<>>
    /\ max_turns = 0
    /\ speaker = ""
    /\ core = NoRet
    /\ ret = NoRet
    /\ saves = 0
    /\ calls = NoCalls
    /\ params \in ParamTrees
    /\ resolved = <<>>
    /\ input = <<>>
    /\ cleaned = <<>>

\* resolve_params_deep(params, artifacts)
ResolveOnce ==
    /\ mode = "resolve" /\ pc = "call"
    /\ resolved' = <<resolve_params_deep(params, artifacts)>>
    /\ pc' = "once"
    /\ UNCHANGED <<mode, taskVars, history, artifacts, lock, debateVars, ret, saves,
                   calls, params, input, cleaned>>

\* resolve_params_deep applied to its own result, with the same artifacts
ResolveTwice ==
    /\ mode = "resolve" /\ pc = "once"
    /\ resolved' = Append(resolved, resolve_params_deep(resolved[1], artifacts))
    /\ pc' = "twice"
    /\ UNCHANGED <<mode, taskVars, history, artifacts, lock, debateVars, ret, saves,
                   calls, params, input, cleaned>>

ResolveNext == ResolveOnce \/ ResolveTwice

ResolveSpec == ResolveInit /\ [][ResolveNext]_vars

\* C13: resolving the result of a resolution again, with the same artifacts,
\* changes nothing; and a tree without a reference string is resolved to itself.
C13_ResolveIdempotent ==
    mode = "resolve" =>
        /\ Len(resolved) = 2 => resolved[2] = resolved[1]
        /\ (Len(resolved) >= 1 /\ params \in {Num(5)} \cup { Str(s) : s \in OtherStrings })
                => resolved[1] = params


RECURSIVE Reach(_, _)
\* the values found from v along the segments q: an object is entered by the
\* key, an array by the index 0; the set is empty when a segment misses
Reach(v, q) ==
    IF q = <<>> THEN {v}
    ELSE LET next == IF v.t = "obj" /\ Head(q) \in DOMAIN v.o THEN {v.o[Head(q)]}
                     ELSE IF v.t = "arr" /\ Head(q) = <<"0">> /\ Len(v.a) >= 1
                     THEN {v.a[1]}
                     ELSE {}
         IN  UNION { Reach(w, Tail(q)) : w \in next }

\* the head and segments that a string of the inputs refers to, if it is a
\* reference string
Referred(x) ==
    { hq \in Heads \X SegSeqs :
        \/ x = Str(Ref(Path(hq[1], hq[2])))
        \/ x = Str(Ref(<<" ">> \o Path(hq[1], hq[2]) \o <<" ">>)) }

\* what a leaf is to be resolved to
ExpectedLeaf(x, A) ==
    LET found == UNION { IF hq[1] \in DOMAIN A THEN Reach(A[hq[1]], hq[2]) ELSE {} :
                         hq \in Referred(x) }
    IN  IF found = {} THEN x ELSE CHOOSE v \in found : TRUE

\* C14: a reference string is replaced by the value found in artifacts[head]
\* along its segments and kept when the head or a segment misses; other strings
\* and scalars are unchanged; arrays and objects are resolved element by element.
C14_ResolveByPath ==
    (mode = "resolve" /\ Len(resolved) >= 1) =>
        CASE params.t = "arr" ->
                /\ resolved[1].t = "arr"
                /\ DOMAIN resolved[1].a = DOMAIN params.a
                /\ \A k \in DOMAIN params.a :
                        resolved[1].a[k] = ExpectedLeaf(params.a[k], artifacts)
          [] params.t = "obj" ->
                /\ resolved[1].t = "obj"
                /\ DOMAIN resolved[1].o = DOMAIN params.o
                /\ \A k \in DOMAIN params.o :
                        resolved[1].o[k] = ExpectedLeaf(params.o[k], artifacts)
          [] OTHER -> resolved[1] = ExpectedLeaf(params, artifacts)

\* the reference {{a.r.0}} inside an object was replaced by the number found
\* in artifacts["a"]["r"][0]
C14_ReferenceReplaced ==
    /\ mode = "resolve" /\ Len(resolved) >= 1
    /\ params = Obj([k \in {<<"r">>} |-> Str(Ref(Path(<<"a">>, << <<"r">>, <<"0">> >>)))])
    /\ resolved[1] = Obj([k \in {<<"r">>} |-> Num(5)])


----------------------------------------------------------------------------
(* ManagerAgent::clean_json_markdown *)

\* longest run of white space put around a document or around a fenced block
MaxPad == 1

\* the backquote character
Backquote == "bq"

\* the fence of a Markdown code block, three backquotes
Fence == <<Backquote, Backquote, Backquote>>

FenceJson == Fence \o <<"j", "s", "o", "n">>

\* str::strip_prefix(pre).unwrap_or(fallback)
StripPrefixOr(s, pre, fallback) ==
    IF StartsWith(s, pre) THEN SubSeq(s, Len(pre) + 1, Len(s)) ELSE fallback

\* str::strip_suffix(suf).unwrap_or(fallback)
StripSuffixOr(s, suf, fallback) ==
    IF EndsWith(s, suf) THEN SubSeq(s, 1, Len(s) - Len(suf)) ELSE fallback

\* the chain of the source: every unwrap_or falls back to the untrimmed input
clean_json_markdown(inp) ==
    Trim(StripSuffixOr(StripPrefixOr(StripPrefixOr(Trim(inp), FenceJson, inp),
                                     Fence, inp),
                       Fence, inp))

\* JSON documents, as text
Docs ==
    { <<"5">>, <<"{", "}">>, <<"[", "5", "]">>, <<"[", "{", "}", "]">> }

ParseError == <<"error">>

\* serde_json::from_str on the texts of the model: white space around the
\* document is skipped, the document is the value, anything else is an error
Parse(text) == IF Trim(text) \in Docs THEN Trim(text) ELSE ParseError

Pads == UNION { [1..k -> Whitespace] : k \in 0..MaxPad }

\* valid JSON texts: a document with white space around it
ValidJson == { l \o d \o r : l \in Pads, d \in Docs, r \in Pads }

\* s between the fence with the json tag and the closing fence, each on a
\* line of its own
WrapJson(s) == FenceJson \o <<"\n">> \o s \o <<"\n">> \o Fence

\* s between two plain fences
WrapPlain(s) == Fence \o <<"\n">> \o s \o <<"\n">> \o Fence

\* the LLM responses of the inputs: JSON bare or fenced, white space around it
Responses ==
    { l \o body \o r :
        l \in Pads, r \in Pads,
        body \in ValidJson \cup { WrapJson(s) : s \in ValidJson }
                           \cup { WrapPlain(s) : s \in ValidJson } }

CleanInit ==
    /\ mode = "clean"
    /\ pc = "call"
    /\ initial_plan = <<>>
    /\ current_plan_tasks = <<>>
    /\ completed_tasks_ids = {}
    /\ task_results_history = <<>>
    /\ global_replan_count = 0
    /\ history = <<>>
    /\ artifacts = NoArtifacts
    /\ lock = 0
    /\ pipes = <<>>
    /\ fold = NoFold
    /\ round = 0
    /\ turns = <<>>
    /\ max_turns = 0
    /\ speaker = ""
    /\ core = NoRet
    /\ ret = NoRet
    /\ saves = 0
    /\ calls = NoCalls
    /\ params = Null
    /\ resolved = <<>>
    /\ input \in Responses
    /\ cleaned = <<>>

\* Self::clean_json_markdown(&raw)
Clean ==
    /\ mode = "clean" /\ pc = "call"
    /\ cleaned' = clean_json_markdown(input)
    /\ pc' = "cleaned"
    /\ UNCHANGED <<mode, taskVars, history, artifacts, lock, debateVars, ret, saves,
                   calls, params, resolved, input>>

CleanNext == Clean

CleanSpec == CleanInit /\ [][CleanNext]_vars

\* C15: for valid JSON s, the cleaned text of s in a json fence parses to
\* the value of s, and so does the cleaned text of s itself.
C15_FenceStripped ==
    (mode = "clean" /\ pc = "cleaned") =>
        \A s \in ValidJson :
            (input = s \/ input = WrapJson(s)) => Parse(cleaned) = Parse(s)

----------------------------------------------------------------------------
(* run_task when every call succeeds and every vote passes *)

\* the plans every task of which can run: its skill is registered and its
\* dependencies are tasks of the plan that do not depend on it
Runnable(plan) ==
    /\ \A k \in DOMAIN plan :
          /\ plan[k].skill \in Registry
          /\ plan[k].deps \subseteq Ids(plan)
    /\ Acyclic(plan)

RunnablePlans == { plan \in Plans : Runnable(plan) }

\* three verifier responses that parse to passed = true
AllPass == [k \in 1..NumVotes |-> "pass"]

\* run_task with the responses restricted: the planner and the reviewer return
\* plans, every skill returns Ok, every vote passes, the synthesis response
\* parses; the store may still fail
HappyNext ==
    \/ \E plan \in Plans : MakePlanWith("plan", plan)
    \/ \E plan \in RunnablePlans : ReviewPlanWith("plan", plan)
    \/ Schedule
    \/ \E i \in 1..MaxPlanLen : BeginAttempt(i)
    \/ \E i \in 1..MaxPlanLen :
          /\ Running(i)
          /\ \E r \in SkillResults(pipes[i].skill) \ {"err"} : SkillReturnWith(i, r)
    \/ \E i \in 1..MaxPlanLen : VerifyWith(i, AllPass)
    \/ FoldStep
    \/ AfterBatch
    \/ SynthesizeWith("ok")
    \/ PersistAndReturn

HappySpec == Init /\ [][HappyNext]_vars

\* C16: when planning, review, every skill execution and the synthesis succeed
\* and every vote passes, every pipeline makes one pass of its attempt loop
\* (one skill call, one verification round, no reflector and no adjudicator
\* call) and returns success, no batch fails and the replanner is never
\* called, every task is run once, and run_task returns Ok after one
\* synthesis call.
C16_HappyPath ==
    /\ global_replan_count = 0 /\ calls.replan = 0 /\ ~fold.batch_failed
    /\ pc # "replan"
    /\ \A i \in DOMAIN pipes :
          /\ pipes[i].attempt = 0 /\ pipes[i].reflects = 0
          /\ pipes[i].pc \in {"start", "exec", "verify", "done"}
          /\ pipes[i].execs = (IF pipes[i].pc = "start" THEN 0 ELSE 1)
          /\ pipes[i].pc = "done" =>
                /\ pipes[i].out.kind = "outcome"
                /\ pipes[i].out.success
    /\ Len(task_results_history) <= Len(current_plan_tasks)
    /\ ret.kind # "none" =>
          /\ ret = RetOk
          /\ calls.synth = 1
          /\ Len(task_results_history) = Len(current_plan_tasks)
          /\ completed_tasks_ids = Ids(current_plan_tasks)

\* a run of two batches returned Ok
C16_TwoBatchesOk ==
    /\ ret = RetOk
    /\ Len(current_plan_tasks) = 2
    /\ current_plan_tasks[1].deps # {}
    /\ task_results_history = <<"t1", "t2">>

----------------------------------------------------------------------------
(* run_task: the error of the exhausted replan budget *)

\* the text process_execution_results builds from a failed result
FailureText(p) ==
    <<p.task.id, IF p.out.feedback = "none" THEN "Unknown" ELSE p.out.feedback>>

\* C17: the error returned when a batch fails with the replan budget used up
\* carries the failure_info built from a failed result of that same batch
\* (the task's id and its verification feedback); the feedback of a task
\* that used up its retries is the reason of its last failed attempt.
C17_BudgetErrorCarriesFailure ==
    /\ [][\A i \in DOMAIN pipes :
            \A reason \in {"Runtime Error", "Unanimous Fail", "rationale"} :
                (pipes[i].attempt = max_retries /\ FailedAttempt(i, reason)) =>
                    pipes'[i].out.feedback = reason]_vars
    /\ [][(mode = "task" /\ pc = "batch" /\ ret'.kind = "err" /\ ret'.why = "budget") =>
            \E i \in DOMAIN pipes :
                /\ pipes[i].out.kind = "outcome"
                /\ ~pipes[i].out.success
                /\ ret'.info = FailureText(pipes[i])]_vars

\* the budget error names a task whose last attempt was failed by the verifiers
C17_BudgetErrorNamesReason ==
    /\ pc = "done" /\ ret.kind = "err" /\ ret.why = "budget"
    /\ ret.info = <<"t1", "Unanimous Fail">>

----------------------------------------------------------------------------
(* AgentContext::history at the end of a run *)

\* the number of history entries of a kind
Entries(kind) == Cardinality({ k \in DOMAIN history : history[k][1] = kind })

\* C18: when run_task has returned, history holds one entry for the user
\* instruction, a task-start entry for every task outcome entry (every task
\* whose outcome was logged had been started), an outcome entry for every
\* result folded, and one entry for every global replanning event.
C18_HistoryEntries ==
    (mode = "task" /\ ret.kind # "none") =>
        /\ Entries("user") = 1
        /\ Entries("success") = Len(task_results_history)
        /\ Entries("start") >= Entries("success") + Entries("failure")
        /\ Entries("replan") = global_replan_count

----------------------------------------------------------------------------
(* ContextStore::save in run_task and in run_debate *)

\* a run of either entry point
AgentInit == Init \/ DebateInit

AgentNext == Next \/ DebateNext

AgentSpec == AgentInit /\ [][AgentNext]_vars

\* C19: a step in which ContextStore::save fails returns to the caller what
\* the same step returns when save succeeds: run_task returns the Ok of the
\* synthesis, run_debate returns the result of the debate core, Ok or error.
C19_SaveFailureNotMasked ==
    [][/\ PersistWith("err") => (ret' = RetOk /\ PersistWith("ok"))
       /\ DebateSaveWith("err") => (ret' = core /\ DebateSaveWith("ok"))]_vars

\* run_task has returned Ok after its call of save, made once two tasks were
\* completed
C19_ReturnedAfterSave ==
    /\ mode = "task" /\ pc = "done" /\ saves = 1
    /\ ret = RetOk /\ completed_tasks_ids = {"t1", "t2"}

----------------------------------------------------------------------------
(* process_execution_results: failure_info of a batch with several failures *)

\* result i of the batch has been folded and was a failure
FoldedFailure(i) ==
    /\ i \in 1..fold.idx
    /\ pipes[i].out.kind = "outcome"
    /\ ~pipes[i].out.success

\* the fold is under way or finished, and a failure has been folded
FoldFailed == mode = "task" /\ pc = "batch" /\ AllDone /\ fold.batch_failed

FirstFailed == CHOOSE i \in 1..fold.idx : FoldedFailure(i) /\ \A j \in 1..(i - 1) : ~FoldedFailure(j)

LastFailed == CHOOSE i \in 1..fold.idx : FoldedFailure(i) /\ \A j \in (i + 1)..fold.idx : ~FoldedFailure(j)

----------------------------------------------------------------------------
(* run_task: the merge of the replanner's tasks *)

\* the positions of the completed tasks in the current plan
KeptPositions ==
    { k \in DOMAIN current_plan_tasks : current_plan_tasks[k].id \in completed_tasks_ids }

\* the position a kept task has after the merge
RankOfKept(k) == Cardinality({ j \in KeptPositions : j <= k })

\* C21: a merge makes current_plan the completed tasks of the previous plan,
\* unchanged and in their previous order, followed by the replanner's tasks;
\* the tasks that are not completed are dropped (a task that succeeded in the
\* failing batch is completed, so it is kept); completed_ids and artifacts
\* are left as they were.
C21_MergeKeepsCompleted ==
    [][\A new_tasks \in Replans :
            ReplanWith("plan", new_tasks) =>
                LET n == Cardinality(KeptPositions)
                IN  /\ Len(current_plan_tasks') = n + Len(new_tasks)
                    /\ \A k \in KeptPositions :
                          current_plan_tasks'[RankOfKept(k)] = current_plan_tasks[k]
                    /\ \A k \in DOMAIN new_tasks :
                          current_plan_tasks'[n + k] = new_tasks[k]
                    /\ completed_tasks_ids' = completed_tasks_ids
                    /\ artifacts' = artifacts]_vars

\* after the first batch, in which t1 succeeded and t2 failed, the merge has
\* kept t1 and put the replanner's task behind it
C21_KeptSucceededOfFailedBatch ==
    /\ mode = "task" /\ pc = "loop" /\ calls.replan = 1
    /\ history = << <<"user", "">>, <<"success", "t1">>, <<"failure", "t2">> >>
    /\ completed_tasks_ids = {"t1"}
    /\ current_plan_tasks = << Task("t1", {}, "add"), Task("t2", {"t1"}, "sub") >>

----------------------------------------------------------------------------
(* run_task: a batch is joined, then folded, then the next frontier *)

\* a pipeline of the batch has not returned yet
SomeRunning == \E i \in DOMAIN pipes : pipes[i].pc # "done"

\* C22: while a pipeline of the batch has not returned, no result of the
\* batch is folded: completed_ids, history and artifacts stay as they are and
\* the fold has not begun; the loop leaves the batch (to the next frontier or
\* to replanning) only when every pipeline has returned and every result has
\* been folded, and a new frontier is started only from the loop head.
C22_FoldAfterJoin ==
    /\ []((mode = "task" /\ pc = "batch" /\ SomeRunning) => fold = NoFold)
    /\ [][(mode = "task" /\ pc = "batch" /\ SomeRunning) =>
            /\ completed_tasks_ids' = completed_tasks_ids
            /\ history' = history
            /\ artifacts' = artifacts
            /\ task_results_history' = task_results_history
            /\ pc' = "batch"]_vars
    /\ [][(mode = "task" /\ pc = "batch" /\ pc' \in {"loop", "replan"}) =>
            /\ ~SomeRunning
            /\ fold.idx = Len(pipes)]_vars
    /\ [][(mode = "task" /\ pipes = <<>> /\ pipes' # <<>>) => pc = "loop"]_vars

\* the first result of a batch of two is folded, the second is not yet
C22_FoldUnderWay ==
    /\ mode = "task" /\ pc = "batch"
    /\ Len(pipes) = 2 /\ fold.idx = 1
    /\ ~SomeRunning
    /\ completed_tasks_ids = {pipes[1].task.id}

----------------------------------------------------------------------------
(* execute_batch_parallel: the artifacts snapshot of a batch *)

\* tasks of a batch of the inputs
BatchSize == 2

\* ctx.artifacts before the batch: a value under each of the heads, or none
PreBatch == { [h \in D |-> Num(1)] : D \in SUBSET Heads }

\* task.params of the inputs: references to artifacts, bare or inside an object
BatchParams ==
    { Str(Ref(<<"a">>)), Str(Ref(<<"b">>)), Obj([k \in {<<"r">>} |-> Str(Ref(<<"a">>))]) }

\* what a skill may insert into ctx.artifacts while it holds the context
Writes == { <<h, Num(2)>> : h \in Heads }

\* HashMap::insert
Put(A, k, v) == [x \in DOMAIN A \cup {k} |-> IF x = k THEN v ELSE A[x]]

\* variant of SnapshotOf: the parameters are resolved against ctx.artifacts
SnapshotOf_live(p) == artifacts

\* the artifacts argument of execute_task_pipeline: the clone of the snapshot
SnapshotOf(p) == p.snapshot

BatchInit ==
    /\ mode = "snapshot"
    /\ pc = "snapshot"
    /\ initial_plan = <<>>
    /\ current_plan_tasks = <<>>
    /\ completed_tasks_ids = {}
    /\ task_results_history = <<>>
    /\ global_replan_count = 0
    /\ history = <<>>
    /\ artifacts \in PreBatch
    /\ lock = 0
    /\ pipes = <<>>
    /\ fold = NoFold
    /\ round = 0
    /\ turns = <<>>
    /\ max_turns = 0
    /\ speaker = ""
    /\ core = NoRet
    /\ ret = NoRet
    /\ saves = 0
    /\ calls = NoCalls
    /\ params = Null
    /\ resolved = <<>>
    /\ input = <<>>
    /\ cleaned = <<>>

BatchFrame ==
    UNCHANGED <<mode, initial_plan, current_plan_tasks, completed_tasks_ids,
                task_results_history, global_replan_count, history, fold,
                debateVars, fnVars, ret, saves, calls>>

\* execute_batch_parallel: the snapshot is cloned under the lock, then one
\* future per task is built with its own clone
TakeSnapshotWith(ps) ==
    /\ mode = "snapshot" /\ pc = "snapshot"
    /\ lock = 0
    /\ pipes' = [k \in DOMAIN ps |->
                    [params |-> ps[k], snapshot |-> artifacts, pc |-> "start",
                     resolved |-> Null]]
    /\ pc' = "batch"
    /\ UNCHANGED <<artifacts, lock>>
    /\ BatchFrame

TakeSnapshot == \E ps \in [1..BatchSize -> BatchParams] : TakeSnapshotWith(ps)

InBatch(i) == mode = "snapshot" /\ pc = "batch" /\ i \in DOMAIN pipes

\* execute_task_pipeline, its first statement
ResolveParams(i) ==
    /\ InBatch(i) /\ pipes[i].pc = "start"
    /\ pipes' = [pipes EXCEPT ![i].resolved =
                    resolve_params_deep(pipes[i].params, SnapshotOf(pipes[i])),
                              ![i].pc = "ready"]
    /\ UNCHANGED <<pc, artifacts, lock>>
    /\ BatchFrame

\* the context lock is acquired and the skill is called
BatchExecute(i) ==
    /\ InBatch(i) /\ pipes[i].pc = "ready"
    /\ lock = 0
    /\ lock' = i
    /\ pipes' = [pipes EXCEPT ![i].pc = "exec"]
    /\ UNCHANGED <<pc, artifacts>>
    /\ BatchFrame

\* the skill returns; it had the context as &mut and may have written to it
BatchSkillReturnWith(i, W) ==
    /\ InBatch(i) /\ pipes[i].pc = "exec"
    /\ lock' = 0
    /\ artifacts' = IF W = {} THEN artifacts
                    ELSE LET w == CHOOSE x \in W : TRUE IN Put(artifacts, w[1], w[2])
    /\ pipes' = [pipes EXCEPT ![i].pc = "done"]
    /\ UNCHANGED pc
    /\ BatchFrame

BatchSkillReturn(i) ==
    \E W \in {{}} \cup { {w} : w \in Writes } : BatchSkillReturnWith(i, W)

BatchNext ==
    \/ TakeSnapshot
    \/ \E i \in 1..BatchSize : ResolveParams(i)
    \/ \E i \in 1..BatchSize : BatchExecute(i)
    \/ \E i \in 1..BatchSize : BatchSkillReturn(i)

BatchSpec == BatchInit /\ [][BatchNext]_vars

\* C23: every pipeline of a batch gets the artifacts as they were when the
\* batch started, all pipelines the same, and keeps them; the parameters a
\* pipeline has resolved are those resolved against that snapshot, whatever a
\* sibling has written into the context before.
C23_ResolvedAgainstSnapshot ==
    /\ [][(mode = "snapshot" /\ pc = "snapshot" /\ pc' = "batch") =>
            \A i \in DOMAIN pipes' : pipes'[i].snapshot = artifacts]_vars
    /\ [][(mode = "snapshot" /\ pc = "batch") =>
            \A i \in DOMAIN pipes :
                /\ pipes'[i].snapshot = pipes[i].snapshot
                /\ pipes'[i].params = pipes[i].params
                /\ pipes[i].pc # "start" => pipes'[i].resolved = pipes[i].resolved]_vars
    /\ [](\A i \in DOMAIN pipes : \A j \in DOMAIN pipes :
            /\ pipes[i].snapshot = pipes[j].snapshot
            /\ pipes[i].pc # "start" =>
                  pipes[i].resolved = resolve_params_deep(pipes[i].params, pipes[j].snapshot))

\* a pipeline has resolved its parameters after its sibling wrote the
\* artifact they refer to: the context would have given another value
C23_SiblingWroteBefore ==
    /\ mode = "snapshot" /\ pc = "batch"
    /\ \E i \in DOMAIN pipes : \E j \in DOMAIN pipes :
          /\ pipes[j].pc = "done" /\ pipes[i].pc = "ready"
          /\ artifacts # pipes[i].snapshot
          /\ resolve_params_deep(pipes[i].params, artifacts) # pipes[i].resolved

----------------------------------------------------------------------------
(* execute_task_pipeline: the context lock around skill.execute *)

\* the pipelines whose skill call is in progress
Executing == { i \in DOMAIN pipes : pipes[i].pc = "exec" }

\* C24: at most one skill call of a run is in progress at any time; the
\* pipeline whose skill is executing holds the context lock, from the call to
\* the return, and the lock is held by nobody else meanwhile.
C24_OneSkillAtATime ==
    mode = "task" =>
        /\ Cardinality(Executing) <= 1
        /\ \A i \in Executing : lock = i
        /\ lock # 0 => lock \in Executing

\* a skill is executing while its sibling, which has executed once already,
\* waits at the head of its next attempt
C24_SiblingWaits ==
    /\ mode = "task" /\ pc = "batch" /\ Len(pipes) = 2
    /\ pipes[1].pc = "exec" /\ lock = 1
    /\ pipes[2].pc = "start" /\ pipes[2].attempt = 1 /\ pipes[2].skill \in Registry

----------------------------------------------------------------------------
(* execute_task_pipeline: a skill that is not registered *)

\* pipeline i is at the head of an attempt and its skill is not registered
MissingAtHead(i) ==
    /\ Running(i) /\ pipes[i].pc = "start"
    /\ pipes[i].skill \notin Registry

\* C25: at the head of any attempt, the first or one after a reroute, a skill
\* name that is not registered ends the pipeline in its next step with a
\* failed outcome: no skill call, no reflector call, the lock is not taken;
\* a pipeline that has returned makes no further step.
C25_MissingSkillEndsPipeline ==
    /\ [][\A i \in DOMAIN pipes :
            (MissingAtHead(i) /\ pipes'[i] # pipes[i]) =>
                /\ pipes'[i].pc = "done"
                /\ pipes'[i].out.kind = "outcome"
                /\ ~pipes'[i].out.success
                /\ pipes'[i].execs = pipes[i].execs
                /\ pipes'[i].reflects = pipes[i].reflects
                /\ lock' = lock]_vars
    /\ [][\A i \in DOMAIN pipes :
            (Running(i) /\ pipes[i].pc = "done" /\ pc' = "batch") =>
                pipes'[i] = pipes[i]]_vars

\* a pipeline rerouted to an unregistered skill after its first attempt has
\* returned its failure without a second execution
C25_MissingAfterReroute ==
    \E i \in DOMAIN pipes :
        /\ pipes[i].pc = "done"
        /\ pipes[i].out = Outcome(FALSE, "none", "none")
        /\ pipes[i].execs = 1 /\ pipes[i].reflects = 1

----------------------------------------------------------------------------
(* execute_task_pipeline: reflection between two attempts *)

\* the skill call of pipeline i begins in this step
CallBegins(i) == Running(i) /\ pipes[i].pc = "start" /\ pipes'[i].pc = "exec"

\* C26: a failure of the reflector (its call or the parse of its response)
\* does not end the pipeline: current skill and parameters are left as they
\* are, the next attempt begins, and the skill call of that attempt is made
\* with the skill and the parameters the pipeline holds.
C26_ReflectorFailureKeepsInput ==
    /\ [][\A i \in DOMAIN pipes :
            ReflectWith(i, "err") =>
                /\ pipes'[i].pc = "start"
                /\ pipes'[i].out = NoOut
                /\ pipes'[i].attempt = pipes[i].attempt + 1
                /\ pipes'[i].skill = pipes[i].skill
                /\ pipes'[i].params = pipes[i].params]_vars
    /\ [][\A i \in DOMAIN pipes :
            CallBegins(i) =>
                /\ pipes'[i].skill = pipes[i].skill
                /\ pipes'[i].params = pipes[i].params]_vars

\* the second skill call of a pipeline is in progress with the resolved
\* parameters of the task: the reflector had failed after the first attempt
C26_RetryWithSameInput ==
    \E i \in DOMAIN pipes :
        /\ pipes[i].pc = "exec"
        /\ pipes[i].execs = 2 /\ pipes[i].reflects = 1
        /\ pipes[i].skill = pipes[i].task.skill /\ pipes[i].params = "resolved"


\* C27: when the reflector returns (new_skill, new_params) after a failed
\* attempt with attempts left, the pipeline takes both over and begins the
\* next attempt; the skill call of that attempt is made with them (if
\* new_skill is registered), the data under verification is what that call
\* returned, and a verified attempt ends the pipeline with success and that
\* data.
C27_RerouteThenSucceed ==
    /\ [][\A i \in DOMAIN pipes :
            \A new_skill \in SkillNames :
                ReflectWith(i, new_skill) =>
                    /\ pipes[i].attempt < max_retries
                    /\ pipes'[i].pc = "start"
                    /\ pipes'[i].attempt = pipes[i].attempt + 1
                    /\ pipes'[i].skill = new_skill
                    /\ pipes'[i].params = "reflected"]_vars
    /\ [][\A i \in DOMAIN pipes :
            (Running(i) /\ pipes[i].pc = "start" /\ pipes[i].skill \in Registry
                /\ pipes'[i] # pipes[i]) =>
                    /\ pipes'[i].pc = "exec"
                    /\ pipes'[i].skill = pipes[i].skill
                    /\ pipes'[i].params = pipes[i].params]_vars
    /\ [](\A i \in DOMAIN pipes :
            pipes[i].pc \in {"verify", "adjudicate"} =>
                pipes[i].data \in SkillResults(pipes[i].skill) \ {"err"})
    /\ [][\A i \in DOMAIN pipes :
            (Running(i) /\ pipes[i].pc \in {"verify", "adjudicate"}
                /\ pipes'[i].pc = "done" /\ pipes'[i].out.kind = "outcome"
                /\ pipes'[i].out.success) =>
                    pipes'[i].out.data = pipes[i].data]_vars

\* a task planned with the skill add has succeeded with the data of the skill
\* sub, to which the reflector rerouted it after the first attempt
C27_SucceededWithNewSkill ==
    \E i \in DOMAIN pipes :
        /\ pipes[i].pc = "done"
        /\ pipes[i].task.skill = "add"
        /\ pipes[i].out = Outcome(TRUE, DataOf("sub"), "none")
        /\ pipes[i].execs = 2 /\ pipes[i].reflects = 1

----------------------------------------------------------------------------
(* verify_with_adjudication: votes that could not be obtained *)

\* the votes of a kind in a vote vector
VotesOf(votes, kind) == { k \in DOMAIN votes : votes[k] = kind }

\* C28: a vote whose call or parse failed is in neither count; the round is
\* decided from the valid votes: no fail vote, it passes (a round without any
\* valid vote included); else no pass vote, it fails; else it goes to the
\* adjudicator. A round that passes or fails here makes no adjudicator call.
C28_InvalidVotesDropped ==
    [][\A i \in DOMAIN pipes :
        \A votes \in VoteVectors :
            VerifyWith(i, votes) =>
                IF VotesOf(votes, "fail") = {}
                THEN RoundPassed(i)
                ELSE IF VotesOf(votes, "pass") = {}
                THEN /\ RoundFailed(i)
                     /\ pipes'[i].pc # "adjudicate"
                     /\ pipes'[i].pc = "reflect" => pipes'[i].last = "Unanimous Fail"
                ELSE pipes'[i] = [pipes[i] EXCEPT !.pc = "adjudicate"]]_vars

\* a round has ended with a pass in the first attempt, and the three dropped
\* votes are among the vote vectors that end it so
C28_RoundPassedAtOnce ==
    /\ VotesOf([k \in 1..NumVotes |-> "invalid"], "fail") = {}
    /\ \E i \in DOMAIN pipes :
          /\ pipes[i].pc = "done"
          /\ pipes[i].out = Outcome(TRUE, "none", "none")
          /\ pipes[i].execs = 1 /\ pipes[i].reflects = 0

----------------------------------------------------------------------------
(* review_and_refine_plan: a response that is no plan *)

\* C29: when the reviewer's response does not parse as a plan, run_task does
\* not return: it goes on to the scheduling loop with the tasks of the
\* initial plan as the current plan, the same tasks in the same order, and
\* nothing completed.
C29_ReviewFallsBack ==
    [][ReviewPlanWith("parse_err", <<>>) =>
            /\ current_plan_tasks' = initial_plan
            /\ pc' = "loop"
            /\ ret'.kind = "none"
            /\ completed_tasks_ids' = {}]_vars

\* the scheduling loop is entered with a plan of two tasks, the second
\* depending on the first, before any batch
C29_PlanReachesLoop ==
    /\ mode = "task" /\ pc = "loop" /\ initial_plan = <<>>
    /\ current_plan_tasks = << Task("t1", {}, "sub"), Task("t2", {"t1"}, "sub") >>
    /\ Len(history) = 1 /\ calls.replan = 0

----------------------------------------------------------------------------
(* run_task: synthesis *)

\* synthesis is about to be called, has been called, or the run is over
\* after it
SynthesisReached ==
    mode = "task" /\ (pc \in {"synth", "save"} \/ (pc = "done" /\ calls.synth = 1))

\* C30: the synthesis call is made at most once, and only when every task of
\* the current plan has its id in completed_ids; once the loop is left for
\* synthesis no pipeline exists or is started again (so no skill call,
\* verification or reflection), nothing is replanned, and the plan and the
\* completed ids stay as they are.
C30_SynthesisOnceAtTheEnd ==
    /\ [](calls.synth <= 1)
    /\ [](SynthesisReached =>
            /\ \A k \in DOMAIN current_plan_tasks :
                  current_plan_tasks[k].id \in completed_tasks_ids
            /\ pipes = <<>>)
    /\ [][calls'.synth # calls.synth =>
            /\ calls'.synth = 1
            /\ \A k \in DOMAIN current_plan_tasks :
                  current_plan_tasks[k].id \in completed_tasks_ids]_vars
    /\ [][SynthesisReached =>
            /\ pc' \in {"save", "done"}
            /\ pipes' = <<>>
            /\ calls'.replan = calls.replan
            /\ global_replan_count' = global_replan_count
            /\ current_plan_tasks' = current_plan_tasks
            /\ completed_tasks_ids' = completed_tasks_ids
            /\ artifacts' = artifacts
            /\ history' = history]_vars

\* synthesis has been called after a run with a replan that completed two tasks
C30_SynthesisAfterReplan ==
    /\ mode = "task" /\ pc = "save" /\ calls.synth = 1
    /\ calls.replan >= 1
    /\ completed_tasks_ids = {"t1", "t2"}

----------------------------------------------------------------------------
(* run_debate_core: the turn budget *)

\* C31: the host is asked at most max_turns times and at most max_turns
\* skill calls are made (every skill call records one turn); a decision
\* "next" costs one round, at once when the speaker is unknown and when the
\* skill returns otherwise; at the loop head a round counter above max_turns
\* sends the debate to synthesis.
C31_TurnBudget ==
    /\ [](mode = "debate" =>
            /\ calls.host <= max_turns
            /\ Len(turns) <= max_turns
            /\ round <= max_turns + 1
            /\ pc = "exec" => Len(turns) < max_turns)
    /\ [][\A who \in SkillNames :
            HostDecisionWith("next", who) =>
                IF who \in Registry
                THEN pc' = "exec" /\ round' = round
                ELSE pc' = "head" /\ round' = round + 1 /\ turns' = turns]_vars
    /\ [][(mode = "debate" /\ pc = "exec" /\ pc' # "exec") =>
            /\ round' = round + 1
            /\ pc' = "head"
            /\ Len(turns') = Len(turns) + 1]_vars
    /\ [][(mode = "debate" /\ pc = "head" /\ round > max_turns /\ pc' # pc) =>
            pc' = "synth"]_vars

\* the budget of two rounds is used up by one unknown speaker and one skill
\* call, and the debate is at synthesis
C31_BudgetUsedUp ==
    /\ mode = "debate" /\ pc = "synth"
    /\ max_turns = 2 /\ round = 3
    /\ calls.host = 2 /\ Len(turns) = 1

----------------------------------------------------------------------------
(* run_task: termination *)

\* run_task when every LLM, skill and store call returns and the executor
\* goes on polling the futures it has: a step that can be taken is taken
LiveSpec == Spec /\ WF_vars(Next)

\* C32: if every call returns, run_task returns, Ok or an error: the
\* scheduling loop does not go on forever and no step waits forever.
C32_RunReturns == <>(mode = "task" /\ pc = "done" /\ ret.kind # "none")

\* a run has returned Ok after using its three replans
C32_ReturnedAfterThreeReplans ==
    /\ mode = "task" /\ pc = "done" /\ ret = RetOk
    /\ global_replan_count = MAX_GLOBAL_REPLANS

----------------------------------------------------------------------------
(* process_execution_results: a pipeline that returned an error *)

\* the batch is joined and the next result in batch order is an error
ErrorIsNext ==
    /\ mode = "task" /\ pc = "batch"
    /\ \A i \in DOMAIN pipes : pipes[i].pc = "done"
    /\ fold.idx < Len(pipes)
    /\ pipes[fold.idx + 1].out.kind = "error"

\* the first fold.idx results of the batch are folded: their lines are the
\* last lines of history, the succeeded ones are completed and their data is
\* in artifacts
PrecedingFolded ==
    \A k \in 1..fold.idx :
        /\ pipes[k].out.kind = "outcome"
        /\ history[Len(history) - fold.idx + k] =
              <<IF pipes[k].out.success THEN "success" ELSE "failure", pipes[k].task.id>>
        /\ pipes[k].out.success =>
              /\ pipes[k].task.id \in completed_tasks_ids
              /\ pipes[k].out.data # "none" => pipes[k].task.id \in DOMAIN artifacts

\* C33: when the next result to fold is a pipeline's error, run_task returns
\* that error in this step, whatever the replan counter is, without a
\* replanner call; the results before it are folded, and neither this step
\* nor any later one folds anything: the results after it stay out.
C33_PipelineErrorReturns ==
    /\ [][(ErrorIsNext /\ vars' # vars) =>
            /\ pc' = "done"
            /\ ret' = RetErr("pipeline", <<>>)
            /\ PrecedingFolded
            /\ UNCHANGED <<completed_tasks_ids, task_results_history, history,
                           artifacts, fold, pipes, calls, global_replan_count>>]_vars
    /\ [][(mode = "task" /\ pc = "done") => UNCHANGED vars]_vars

\* run_task has returned the error of the second pipeline of a batch with
\* budget left; the first result, a success, is folded
C33_ErrorAfterFoldedSuccess ==
    /\ mode = "task" /\ pc = "done" /\ ret = RetErr("pipeline", <<>>)
    /\ global_replan_count < MAX_GLOBAL_REPLANS
    /\ Len(pipes) = 2 /\ fold.idx = 1
    /\ pipes[1].out.success /\ pipes[1].task.id \in completed_tasks_ids
    /\ pipes[2].out.kind = "error"

----------------------------------------------------------------------------
(* run_task: a replanner that gives up the failed task *)

\* every task of the list has its id in completed_ids
OnlyCompleted(tasks) == \A k \in DOMAIN tasks : tasks[k].id \in completed_tasks_ids

\* C34: when the replanner, called after a failed batch, returns no task or
\* only tasks whose ids are completed, the merged plan holds completed tasks
\* only; the loop head then leaves the loop for synthesis without another
\* batch, and the run can return Ok with the failed task not completed.
C34_EmptyReplanEndsLoop ==
    /\ [][\A new_tasks \in Replans :
            (ReplanWith("plan", new_tasks) /\ OnlyCompleted(new_tasks)) =>
                /\ pc' = "loop"
                /\ ret'.kind = "none"
                /\ completed_tasks_ids' = completed_tasks_ids
                /\ OnlyCompleted(current_plan_tasks')]_vars
    /\ [][(mode = "task" /\ pc = "loop" /\ OnlyCompleted(current_plan_tasks)
            /\ vars' # vars) =>
                /\ pc' = "synth"
                /\ pipes' = <<>>]_vars

\* run_task has returned Ok although t2 failed and was never completed
C34_OkWithFailedTask ==
    /\ mode = "task" /\ pc = "done" /\ ret = RetOk
    /\ calls.replan = 1
    /\ \E k \in DOMAIN history : history[k] = <<"failure", "t2">>
    /\ "t2" \notin completed_tasks_ids

----------------------------------------------------------------------------
(* the failure reason of a task whose skill is not registered *)

----------------------------------------------------------------------------
(* execute_task_pipeline: a reroute to a skill that is not registered *)

\* C36: the skill name of the reflector is taken over whatever it is,
\* registered or not; when it is not registered the next step of the pipeline
\* ends it with a failed outcome and without a skill call; such a pipeline has
\* made fewer skill calls than the max_retries + 1 attempts allow, although
\* the skill of its task is registered (a pipeline of a registered skill that
\* returned the skill-not-found outcome was rerouted by the reflector).
C36_RerouteNotChecked ==
    /\ [][\A i \in DOMAIN pipes : \A r \in SkillNames :
            ReflectWith(i, r) =>
                /\ pipes'[i].skill = r
                /\ pipes'[i].pc = "start"
                /\ pipes'[i].attempt = pipes[i].attempt + 1]_vars
    /\ [][\A i \in DOMAIN pipes :
            (MissingAtHead(i) /\ pipes[i].task.skill \in Registry
                /\ pipes'[i] # pipes[i]) =>
                /\ pipes'[i].pc = "done"
                /\ pipes'[i].out.kind = "outcome"
                /\ ~pipes'[i].out.success
                /\ pipes'[i].execs = pipes[i].execs]_vars
    /\ [](\A i \in DOMAIN pipes :
            (/\ pipes[i].pc = "done"
             /\ pipes[i].out = Outcome(FALSE, "none", "none")
             /\ pipes[i].task.skill \in Registry) =>
                /\ pipes[i].reflects >= 1
                /\ pipes[i].execs = pipes[i].reflects
                /\ pipes[i].execs < max_retries + 1)

\* a pipeline of a registered skill, rerouted after its first attempt to a
\* skill that is not registered, has returned with two attempts unused
C36_AttemptsLeftUnused ==
    \E i \in DOMAIN pipes :
        /\ pipes[i].pc = "done"
        /\ pipes[i].out = Outcome(FALSE, "none", "none")
        /\ pipes[i].task.skill \in Registry
        /\ pipes[i].reflects = 1
        /\ pipes[i].execs = 1
        /\ pipes[i].execs + 2 = max_retries + 1

----------------------------------------------------------------------------
(* the context lock: who holds it, and who waits for it *)

\* run_task and run_debate with every enabled step eventually taken: every
\* call (LLM, skill, store) returns
LiveAgentSpec == AgentSpec /\ WF_vars(AgentNext)

\* pipeline i is at the head of an attempt and needs the lock for its skill
WaitsForLock(i) ==
    /\ Running(i) /\ pipes[i].pc = "start"
    /\ pipes[i].skill \in Registry

\* C37: between two steps the context lock is held only by the one skill call
\* in progress (of a pipeline, or of the speaker of a debate round); the
\* snapshot, a fold step, the read for the synthesis and the save take the
\* lock when it is free and give it back in the same step; the holder's next
\* step gives the lock back and nobody acquires a lock that is held.  So a
\* pending fold step, the synthesis and the save always find the lock free,
\* and, every call returning, a held lock is given back and a pipeline that
\* needs the lock for its skill gets it.
C37_LockNotHeldForever ==
    /\ [](lock # 0 =>
            IF mode = "task" THEN pc = "batch" /\ lock \in Executing
            ELSE pc = "exec" /\ lock = 1)
    /\ [](((mode = "task" /\ pc = "batch" /\ AllDone)
            \/ pc \in {"loop", "synth", "save"}) => lock = 0)
    /\ [][(lock' # lock /\ lock' # 0) => lock = 0]_vars
    /\ [][(lock # 0 /\ vars' # vars) =>
            \/ lock' = 0
            \/ /\ lock' = lock /\ mode = "task"
               /\ pipes'[lock] = pipes[lock]
               /\ pc' = pc /\ fold' = fold /\ saves' = saves]_vars
    /\ [][(mode = "task" /\ (fold' # fold \/ saves' # saves \/ calls' # calls
                              \/ (pc = "loop" /\ pc' = "batch"))) =>
            lock = 0 /\ lock' = 0]_vars
    /\ \A i \in 1..MaxPlanLen :
            WaitsForLock(i) ~> (Running(i) /\ pipes[i].pc = "exec" /\ lock = i)
    /\ (lock # 0) ~> (lock = 0)

\* both pipelines of a batch have made one skill call; the first one holds the
\* lock for its second call while the second one waits for it
C37_SecondCallWhileSiblingWaits ==
    /\ mode = "task" /\ pc = "batch" /\ Len(pipes) = 2
    /\ pipes[1].pc = "exec" /\ lock = 1 /\ pipes[1].execs = 2
    /\ WaitsForLock(2) /\ pipes[2].execs = 1

----------------------------------------------------------------------------
(* run_debate: a skill that returns an error *)

\* C38: a skill error does not end the debate: the step in which a skill
\* returns, Ok or Err, records one turn, leaves the result of the core
\* undecided and goes on to the head of the next round; for Err the turn has
\* the content "ERROR", history gets a FAILED line and artifacts are left as
\* they are.  An error of the core, and so of run_debate, is an error of the
\* host decision or of the synthesis.
C38_SkillErrorGoesOn ==
    /\ [][(mode = "debate" /\ pc = "exec" /\ vars' # vars) =>
            /\ pc' = "head"
            /\ round' = round + 1
            /\ core' = core /\ core.kind = "none"
            /\ ret' = ret
            /\ Len(turns') = Len(turns) + 1]_vars
    /\ [][DebateSkillReturnWith("err") =>
            /\ turns' = Append(turns, Turn(round, speaker, "ERROR", "none"))
            /\ history' = Append(history, <<"failed", speaker>>)
            /\ artifacts' = artifacts]_vars
    /\ [](mode = "debate" =>
            /\ core.kind = "err" => core.why \in {"host", "synth"}
            /\ ret.kind = "err" => ret = core)

\* a debate has returned Ok after a round whose skill failed and a later round
\* whose skill succeeded
C38_OkAfterFailedRound ==
    /\ mode = "debate" /\ pc = "done" /\ ret = RetOk
    /\ Len(turns) = 2
    /\ turns[1].content = "ERROR" /\ turns[1].round = 1
    /\ turns[2].content = "summary" /\ turns[2].round = 2
    /\ history[2] = <<"failed", turns[1].speaker>>

----------------------------------------------------------------------------
(* run_debate: a host decision with an unknown action *)

\* C39: a decision whose action is neither "next" nor "conclude" does what
\* "conclude" does: the step is a step of "conclude" too, it leaves the loop
\* for the synthesis, no skill is called (the lock stays free, no turn is
\* recorded, the round is not consumed, history and artifacts are unchanged)
\* and no error is set for it; the run then returns what the synthesis gives.
C39_UnknownActionConcludes ==
    /\ [][HostDecisionWith("other", "") =>
            /\ HostDecisionWith("conclude", "")
            /\ pc' = "synth"
            /\ lock = 0 /\ lock' = 0
            /\ turns' = turns /\ round' = round
            /\ history' = history /\ artifacts' = artifacts
            /\ core' = core /\ core.kind = "none"
            /\ ret' = ret]_vars
    /\ [][(mode = "debate" /\ pc = "synth" /\ vars' # vars) =>
            /\ pc' = "save"
            /\ core' \in {RetOk, RetErr("synth", <<>>)}
            /\ turns' = turns]_vars

\* a debate left its loop in the second round by a decision of the host, with
\* the turn budget not used up, and has returned Ok
C39_LoopLeftByDecision ==
    /\ mode = "debate" /\ pc = "done" /\ ret = RetOk
    /\ calls.host = 2 /\ round = 2 /\ round <= max_turns
    /\ Len(turns) = 1

====
